---- MODULE Spec2Model ----
(***************************************************************************)
(* Excel Unit Test Runner (jacklightbody/xcel-test).                       *)
(*                                                                         *)
(* The engine (src/unnamed/part_005, the runTestSuite build of             *)
(* scripts/test-runner.js; src/scripts/test-runner.js, the runTest build)  *)
(* drives a live workbook: snapshot -> apply inputs -> recalculate -> read *)
(* -> evaluate -> restore.  The workbook and Office.js are the host: a     *)
(* request context queues commands (loads, writes, calculate) and          *)
(* context.sync() flushes the queue in one round trip.                     *)
(*                                                                         *)
(* Host assumptions of this model:                                         *)
(*   - worksheets.getItem(name) fails at the call when the sheet is absent *)
(*     (the try/catch blocks of the engine are written for that);          *)
(*   - context.sync() either resolves, having run the whole queue, or      *)
(*     rejects, having run none of it; the queue is empty afterwards;      *)
(*   - the workbook calculates automatically: after a flushed write every  *)
(*     formula cell shows the value of its formula;                        *)
(*   - a cell without a formula reports the empty string as its formula.   *)
(* JavaScript runs one handler at a time: a step of the model is the code  *)
(* between two awaits.                                                     *)
(***************************************************************************)
EXTENDS Integers, Sequences, FiniteSets, TLC

(***************************************************************************)
(* Scalars.  A JavaScript value is a record [t, v]: t is the tag, v an     *)
(* integer payload (numbers are integers here; a string is the index of    *)
(* its text in StrTable; a boolean is 0 or 1).                             *)
(***************************************************************************)
Num(n) == [t |-> "number", v |-> n]
\* the texts of the strings of the model
StrTable == <<"3", "true", "abc", "", "=2", "=A!1+1", "#VALUE!">>
Str(i) == [t |-> "string", v |-> i]
EmptyStr == Str(4)
FConst == Str(5)
FRef == Str(6)
ValueError == Str(7)
Bool(b) == [t |-> "boolean", v |-> IF b THEN 1 ELSE 0]
Null == [t |-> "null", v |-> 0]
Undefined == [t |-> "undefined", v |-> 0]
NaN == [t |-> "nan", v |-> 0]

\* typeof x
TypeOf(x) ==
    CASE x.t = "nan" -> "number"
      [] x.t = "null" -> "object"
      [] OTHER -> x.t

\* x === y
StrictEq(x, y) == x.t # "nan" /\ x = y

\* parseFloat(x), for a string x
ParseFloat(x) ==
    IF x.t = "string" /\ StrTable[x.v] = "3" THEN Num(3) ELSE NaN

\* x.toLowerCase() === 'true', for a string x
LowerIsTrue(x) == StrTable[x.v] = "true"

\* x is falsy (the left operand of || is replaced when it is)
Falsy(x) ==
    \/ x.t \in {"null", "undefined", "nan"}
    \/ x.t = "number" /\ x.v = 0
    \/ x.t = "boolean" /\ x.v = 0
    \/ x.t = "string" /\ StrTable[x.v] = ""

Abs(n) == IF n < 0 THEN -n ELSE n

(***************************************************************************)
(* Addresses are sequences of characters, so that split('!') is computed.  *)
(***************************************************************************)
A1 == <<"A", "!", "1">>
A2 == <<"A", "!", "2">>
B1 == <<"B", "!", "1">>
X1 == <<"X", "!", "1">>
Bad == <<"A", "1">>

RECURSIVE SplitBang(_, _, _)
\* fullAddress.split('!'): acc holds the finished parts, cur the open one
SplitBang(s, acc, cur) ==
    IF s = <<>> THEN Append(acc, cur)
    ELSE IF Head(s) = "!" THEN SplitBang(Tail(s), Append(acc, cur), <<>>)
    ELSE SplitBang(Tail(s), acc, Append(cur, Head(s)))

Split(fullAddress) == SplitBang(fullAddress, <<>>, <<>>)

\* parseCellAddress throws unless split('!') gives exactly two parts
ParseThrows(fullAddress) == Len(Split(fullAddress)) # 2

parseCellAddress(fullAddress) ==
    [worksheetName |-> Split(fullAddress)[1], cellAddress |-> Split(fullAddress)[2]]

\* `${worksheetName}!${cellAddress}`
FullAddress(worksheetName, cellAddress) == worksheetName \o <<"!">> \o cellAddress

(***************************************************************************)
(* The workbook: sheet A with A!1 and A!2, sheet B with B!1.  B!1 may hold *)
(* the formula "=A!1+1"; A!1 may hold the constant formula "=2".  A cell   *)
(* is                                                                      *)
(* [value, formula]; formula is EmptyStr when the cell has none.           *)
(***************************************************************************)
Sheets == {<<"A">>, <<"B">>}
DocCells == {A1, A2, B1}

\* the value a formula shows, given the workbook
RECURSIVE CellValue(_, _)
CellValue(d, a) ==
    CASE d[a].formula = FConst -> Num(2)
      [] d[a].formula = FRef ->
           IF a # A1 /\ CellValue(d, A1).t = "number"
           THEN Num(CellValue(d, A1).v + 1) ELSE ValueError
      [] OTHER -> d[a].value

\* a single pass that reads the value A!1 displays, not the value of its formula
RecalculateStale(d) ==
    [a \in DOMAIN d |->
       [value |-> CASE d[a].formula = FConst -> Num(2)
                    [] d[a].formula = FRef ->
                         IF a # A1 /\ d[A1].value.t = "number"
                         THEN Num(d[A1].value.v + 1) ELSE ValueError
                    [] OTHER -> d[a].value,
        formula |-> d[a].formula]]

\* full recalculation
Recalculate(d) == [a \in DOMAIN d |-> [value |-> CellValue(d, a), formula |-> d[a].formula]]

(***************************************************************************)
(* The host's command queue.  A command is [op, cell, value, formula, by]: *)
(* op is "load", "values" (range.values = ...), "formulas"                 *)
(* (range.formulas = ...) or "calculate"; by names the engine function     *)
(* that queued it.                                                         *)
(***************************************************************************)
LoadCmd(cell, by) ==
    [op |-> "load", cell |-> cell, value |-> Null, formula |-> EmptyStr, by |-> by]
ValuesCmd(cell, value, by) ==
    [op |-> "values", cell |-> cell, value |-> value, formula |-> EmptyStr, by |-> by]
FormulasCmd(cell, formula, by) ==
    [op |-> "formulas", cell |-> cell, value |-> Null, formula |-> formula, by |-> by]
CalculateCmd(by) ==
    [op |-> "calculate", cell |-> <<>>, value |-> Null, formula |-> EmptyStr, by |-> by]

IsWrite(c) == c.op \in {"values", "formulas"}

\* one command against the workbook: a value write drops the cell's formula
HostApply(d, c) ==
    CASE c.op = "values" /\ c.cell \in DOMAIN d ->
           [d EXCEPT ![c.cell] = [value |-> c.value, formula |-> EmptyStr]]
      [] c.op = "formulas" /\ c.cell \in DOMAIN d ->
           [d EXCEPT ![c.cell] = [value |-> d[c.cell].value, formula |-> c.formula]]
      [] OTHER -> d

RECURSIVE RunQueue(_, _)
RunQueue(d, q) == IF q = <<>> THEN d ELSE RunQueue(HostApply(d, Head(q)), Tail(q))

\* a resolved context.sync(): the queue runs in order, the workbook calculates
HostSync(d, q) == Recalculate(RunQueue(d, q))

(***************************************************************************)
(* Grouping by worksheet (cellsByWorksheet, inputsByWorksheet): items are  *)
(* records with an address field; groups come in order of first            *)
(* appearance, as Object.entries gives them.                               *)
(***************************************************************************)
SheetOf(item) == parseCellAddress(item.address).worksheetName

RECURSIVE SheetOrder(_, _)
SheetOrder(items, seen) ==
    IF items = <<>> THEN <<>>
    ELSE IF SheetOf(Head(items)) \in seen THEN SheetOrder(Tail(items), seen)
    ELSE <<SheetOf(Head(items))>> \o SheetOrder(Tail(items), seen \cup {SheetOf(Head(items))})

GroupBySheet(items) ==
    LET order == SheetOrder(items, {})
    IN [i \in 1..Len(order) |->
          [worksheetName |-> order[i],
           list |-> SelectSeq(items, LAMBDA it : SheetOf(it) = order[i])]]

RECURSIVE Concat(_)
Concat(ss) == IF ss = <<>> THEN <<>> ELSE Head(ss) \o Concat(Tail(ss))

\* index of the first group whose worksheets.getItem throws, 0 when none does
FirstMissing(groups) ==
    IF \E i \in 1..Len(groups) : groups[i].worksheetName \notin Sheets
    THEN CHOOSE i \in 1..Len(groups) :
           /\ groups[i].worksheetName \notin Sheets
           /\ \A j \in 1..(i - 1) : groups[j].worksheetName \in Sheets
    ELSE 0

\* the items reached before the first throwing getItem, in grouped order
ReachedItems(items) ==
    LET groups == GroupBySheet(items)
        bad == FirstMissing(groups)
        ok == IF bad = 0 THEN groups ELSE SubSeq(groups, 1, bad - 1)
    IN Concat([i \in 1..Len(ok) |-> ok[i].list])

\* an error message that names the first worksheet of the batch
FirstSheet(items) ==
    LET groups == GroupBySheet(items)
    IN IF FirstMissing(groups) = 0 THEN <<>> ELSE groups[1].worksheetName

\* the ${worksheetName} of the error message: the worksheet whose getItem threw
FailedSheet(items) ==
    LET groups == GroupBySheet(items)
    IN IF FirstMissing(groups) = 0 THEN <<>> ELSE groups[FirstMissing(groups)].worksheetName

AnyParseThrows(items) == \E i \in 1..Len(items) : ParseThrows(items[i].address)

(***************************************************************************)
(* The adapter functions, up to their await context.sync().  Each gives    *)
(* [threw, cmds, ranges]: whether it threw before the sync, the commands   *)
(* it queued and the parallel arrays fullAddresses/ranges it built.        *)
(***************************************************************************)
\* the cell a range handle stands for
RangeOf(item) ==
    [fullAddress |-> FullAddress(SheetOf(item), parseCellAddress(item.address).cellAddress),
     cell |-> FullAddress(SheetOf(item), parseCellAddress(item.address).cellAddress)]

\* a load written as an assignment
SnapshotLoadAssigns(range) == ValuesCmd(range.cell, Null, "snapshotWorksheetState")

\* what snapshotWorksheetState queues for one range
SnapshotLoad(range) == LoadCmd(range.cell, "snapshotWorksheetState")

\* a snapshot that parses and opens cell by cell, as readOutputs does
snapshotCellByCell(cellAddresses) ==
    LET n == Len(cellAddresses)
        bad == IF \E i \in 1..n : ParseThrows(cellAddresses[i])
               THEN CHOOSE i \in 1..n :
                      /\ ParseThrows(cellAddresses[i])
                      /\ \A j \in 1..(i - 1) : ~ParseThrows(cellAddresses[j])
               ELSE 0
        ok == IF bad = 0 THEN cellAddresses ELSE SubSeq(cellAddresses, 1, bad - 1)
        items == [i \in 1..Len(ok) |-> [address |-> ok[i]]]
        reached == ReachedItems(items)
        ranges == [i \in 1..Len(reached) |-> RangeOf(reached[i])]
    IN [threw |-> bad # 0 \/ FirstMissing(GroupBySheet(items)) # 0,
        error |-> IF FirstMissing(GroupBySheet(items)) # 0 THEN "Failed to access worksheet"
                  ELSE "Invalid cell address format",
        sheet |-> FailedSheet(items),
        cmds |-> [i \in 1..Len(ranges) |-> SnapshotLoad(ranges[i])],
        ranges |-> ranges]

snapshotWorksheetState(cellAddresses) ==
    LET items == [i \in 1..Len(cellAddresses) |-> [address |-> cellAddresses[i]]]
    IN IF AnyParseThrows(items)
       THEN [threw |-> TRUE, error |-> "Invalid cell address format", sheet |-> <<>>,
             cmds |-> <<>>, ranges |-> <<>>]
       ELSE LET reached == ReachedItems(items)
                ranges == [i \in 1..Len(reached) |-> RangeOf(reached[i])]
            IN [threw |-> FirstMissing(GroupBySheet(items)) # 0,
                error |-> "Failed to access worksheet",
                sheet |-> FailedSheet(items),
                cmds |-> [i \in 1..Len(ranges) |-> SnapshotLoad(ranges[i])],
                ranges |-> ranges]

\* a Step 3 that pairs fullAddresses[i] with the range at the mirrored index
SnapshotMirrored(d, ranges) ==
    [i \in 1..Len(ranges) |->
       [address |-> ranges[i].fullAddress,
        value |-> d[ranges[Len(ranges) + 1 - i].cell].value,
        formula |-> IF Falsy(d[ranges[Len(ranges) + 1 - i].cell].formula) THEN Null
                    ELSE d[ranges[Len(ranges) + 1 - i].cell].formula]]

\* Step 3 of snapshotWorksheetState: the snapshot, in insertion order
\* (an insertion-ordered map: a repeated key keeps its first position)
SnapshotOf(d, ranges) ==
    [i \in 1..Len(ranges) |->
       [address |-> ranges[i].fullAddress,
        value |-> d[ranges[i].cell].value,
        formula |-> IF Falsy(d[ranges[i].cell].formula) THEN Null
                    ELSE d[ranges[i].cell].formula]]

\* an applyInputs whose range is the cell below the one addressed
applyInputsBelow(inputs) ==
    IF AnyParseThrows(inputs)
    THEN [threw |-> TRUE, error |-> "Invalid cell address format",
          cmds |-> <<>>, ranges |-> <<>>]
    ELSE LET reached == ReachedItems(inputs)
         IN [threw |-> FirstMissing(GroupBySheet(inputs)) # 0,
             error |-> "Failed to apply input to worksheet",
             cmds |-> [i \in 1..Len(reached) |->
                         ValuesCmd(IF RangeOf(reached[i]).cell = A1 THEN A2
                                   ELSE RangeOf(reached[i]).cell,
                                   reached[i].value, "applyInputs")],
             ranges |-> <<>>]

\* inputs: a sequence of [address, value], the entries of the inputs object
applyInputs(inputs) ==
    IF AnyParseThrows(inputs)
    THEN [threw |-> TRUE, error |-> "Invalid cell address format",
          cmds |-> <<>>, ranges |-> <<>>]
    ELSE LET reached == ReachedItems(inputs)
         IN [threw |-> FirstMissing(GroupBySheet(inputs)) # 0,
             error |-> "Failed to apply input to worksheet",
             cmds |-> [i \in 1..Len(reached) |->
                         ValuesCmd(RangeOf(reached[i]).cell, reached[i].value, "applyInputs")],
             ranges |-> <<>>]

\* readOutputs parses and opens cell by cell: it stops at the first bad one
ReadThrowsAt(cellAddress) ==
    \/ ParseThrows(cellAddress)
    \/ parseCellAddress(cellAddress).worksheetName \notin Sheets

readOutputs(assertionCells) ==
    LET n == Len(assertionCells)
        bad == IF \E i \in 1..n : ReadThrowsAt(assertionCells[i])
               THEN CHOOSE i \in 1..n :
                      /\ ReadThrowsAt(assertionCells[i])
                      /\ \A j \in 1..(i - 1) : ~ReadThrowsAt(assertionCells[j])
               ELSE 0
        ok == IF bad = 0 THEN assertionCells ELSE SubSeq(assertionCells, 1, bad - 1)
        ranges == [i \in 1..Len(ok) |->
                     [fullAddress |-> ok[i], cell |-> RangeOf([address |-> ok[i]]).cell]]
    IN [threw |-> bad # 0,
        error |-> "Failed to read output from cell",
        cmds |-> [i \in 1..Len(ranges) |-> LoadCmd(ranges[i].cell, "readOutputs")],
        ranges |-> ranges]

\* outputs taken from ranges whose values were never loaded
OutputsUnread(d, ranges) ==
    [a \in {ranges[i].fullAddress : i \in 1..Len(ranges)} |-> Null]

\* Step 3 of readOutputs: outputs[fullAddress] = range.values[0][0]
OutputsOf(d, ranges) ==
    [a \in {ranges[i].fullAddress : i \in 1..Len(ranges)} |->
       LET i == CHOOSE k \in 1..Len(ranges) :
                  /\ ranges[k].fullAddress = a
                  /\ \A j \in (k + 1)..Len(ranges) : ranges[j].fullAddress # a
       IN d[ranges[i].cell].value]

\* outputs[cell]
Lookup(outputs, cell) == IF cell \in DOMAIN outputs THEN outputs[cell] ELSE Undefined

(***************************************************************************)
(* restoreState of the runTestSuite build: every worksheet in its own      *)
(* try, every cell in its own try.  failSheets are the worksheets whose    *)
(* getItem throws at restore time (a sheet deleted during the test),       *)
(* failCells the cells whose getRange or assignment throws.                *)
(***************************************************************************)
\* a restore that writes the value whether or not a formula was captured
RestoreWriteValueOnly(entry) == ValuesCmd(entry.address, entry.value, "restoreState")

\* the write that puts one snapshot entry back
RestoreWrite(entry) ==
    IF ~Falsy(entry.formula) /\ ~StrictEq(entry.formula, EmptyStr)
    THEN FormulasCmd(entry.address, entry.formula, "restoreState")
    ELSE ValuesCmd(entry.address, entry.value, "restoreState")

SheetFails(worksheetName, failSheets) ==
    worksheetName \notin Sheets \/ worksheetName \in failSheets

\* the cells of one worksheet written before one of them throws
RECURSIVE UntilFailure(_, _)
UntilFailure(list, failCells) ==
    IF list = <<>> \/ Head(list).address \in failCells THEN <<>>
    ELSE <<Head(list)>> \o UntilFailure(Tail(list), failCells)

\* restoreState of scripts/test-runner.js has one try per worksheet only:
\* a throwing cell ends the restore of its worksheet
RunnerRestoreReached(entries, failSheets, failCells) ==
    LET groups == GroupBySheet(entries)
        ok == SelectSeq(groups, LAMBDA g : ~SheetFails(g.worksheetName, failSheets))
    IN Concat([i \in 1..Len(ok) |-> UntilFailure(ok[i].list, failCells)])

\* its console.error: the worksheet name
RunnerRestoreErrors(entries, failSheets, failCells) ==
    {[kind |-> "Failed to restore cell in worksheet", what |-> SheetOf(entries[i])] :
       i \in {j \in 1..Len(entries) :
                \/ SheetFails(SheetOf(entries[j]), failSheets)
                \/ entries[j].address \in failCells}}

\* the snapshot keys that restoreState does not write
RunnerOffending(entries, failSheets, failCells) ==
    {entries[i].address : i \in 1..Len(entries)}
    \ {RunnerRestoreReached(entries, failSheets, failCells)[i].address :
         i \in 1..Len(RunnerRestoreReached(entries, failSheets, failCells))}

restoreStateOfRunner(entries, failSheets, failCells) ==
    LET reached == RunnerRestoreReached(entries, failSheets, failCells)
    IN [cmds |-> [i \in 1..Len(reached) |-> RestoreWrite(reached[i])],
        errors |-> RunnerRestoreErrors(entries, failSheets, failCells)]

\* a restoreState without the try around each cell
RestoreReachedSheetTry(entries, failSheets, failCells) ==
    RunnerRestoreReached(entries, failSheets, failCells)

\* the entries restoreState reaches: their worksheet opens, their cell does not throw
RestoreReached(entries, failSheets, failCells) ==
    LET groups == GroupBySheet(entries)
        ok == SelectSeq(groups, LAMBDA g : ~SheetFails(g.worksheetName, failSheets))
    IN SelectSeq(Concat([i \in 1..Len(ok) |-> ok[i].list]),
                 LAMBDA e : e.address \notin failCells)

\* console.error of the two catch blocks: the local cell address, or the sheet name
RestoreErrors(entries, failSheets, failCells) ==
    LET groups == GroupBySheet(entries)
    IN {[kind |-> "Failed to restore worksheet", what |-> groups[i].worksheetName] :
          i \in {j \in 1..Len(groups) : SheetFails(groups[j].worksheetName, failSheets)}}
       \cup
       {[kind |-> "Failed to restore cell", what |-> parseCellAddress(entries[i].address).cellAddress] :
          i \in {j \in 1..Len(entries) :
                   /\ ~SheetFails(SheetOf(entries[j]), failSheets)
                   /\ entries[j].address \in failCells}}

\* the snapshot keys the host refuses at restore time
Offending(entries, failSheets, failCells) ==
    {entries[i].address : i \in {j \in 1..Len(entries) :
        \/ SheetFails(SheetOf(entries[j]), failSheets)
        \/ entries[j].address \in failCells}}

restoreState(entries, failSheets, failCells) ==
    LET reached == RestoreReached(entries, failSheets, failCells)
    IN [cmds |-> [i \in 1..Len(reached) |-> RestoreWrite(reached[i])],
        errors |-> RestoreErrors(entries, failSheets, failCells)]

(***************************************************************************)
(* Evaluation inside runTestWithoutProtection.                             *)
(***************************************************************************)
Minus(x, y) == IF x.t = "nan" \/ y.t = "nan" THEN NaN ELSE Num(x.v - y.v)

\* expectedValue.toLowerCase() is a TypeError unless expectedValue is a string
AssertionThrows(assertion, outputs) ==
    /\ TypeOf(Lookup(outputs, assertion.cell)) = "boolean"
    /\ TypeOf(assertion.equals) # "string"

\* "Convert expected value to match actual value type"
ExpectedValue(actualValue, equals) ==
    IF TypeOf(actualValue) = "number" /\ TypeOf(equals) = "string" THEN ParseFloat(equals)
    ELSE IF TypeOf(actualValue) = "boolean" THEN Bool(LowerIsTrue(equals))
    ELSE equals

\* const passed = actualValue === expectedValue
AssertionPassed(actualValue, expectedValue, tolerance) ==
    StrictEq(actualValue, expectedValue)

EvaluateAssertion(assertion, outputs) ==
    LET actualValue == Lookup(outputs, assertion.cell)
        expectedValue == ExpectedValue(actualValue, assertion.equals)
        numeric == TypeOf(actualValue) = "number" /\ TypeOf(expectedValue) = "number"
    IN [cell |-> assertion.cell,
        expected |-> expectedValue,
        actual |-> actualValue,
        passed |-> AssertionPassed(actualValue, expectedValue, assertion.tolerance),
        difference |-> IF numeric THEN Minus(actualValue, expectedValue) ELSE Null,
        tolerance |-> IF numeric
                      THEN (IF Falsy(assertion.tolerance) THEN Num(0) ELSE assertion.tolerance)
                      ELSE Null]

NoError == "null"

\* a result with one entry for each cell asserted on, not for each assertion
TestResultPerCell(testCase, outputs) ==
    LET n == Len(testCase.assertions)
        kept == SelectSeq([k \in 1..n |-> k],
                          LAMBDA k : \A j \in 1..(k - 1) :
                                       testCase.assertions[j].cell # testCase.assertions[k].cell)
        results == [i \in 1..Len(kept) |-> EvaluateAssertion(testCase.assertions[kept[i]], outputs)]
    IN [name |-> IF testCase.name = "" THEN "Unnamed Test" ELSE testCase.name,
        passed |-> \A i \in 1..Len(results) : results[i].passed,
        assertionResults |-> results,
        error |-> NoError]

\* the value runTestWithoutProtection returns
TestResultOf(testCase, outputs) ==
    LET results == [i \in 1..Len(testCase.assertions) |->
                      EvaluateAssertion(testCase.assertions[i], outputs)]
    IN [name |-> IF testCase.name = "" THEN "Unnamed Test" ELSE testCase.name,
        passed |-> \A i \in 1..Len(results) : results[i].passed,
        assertionResults |-> results,
        error |-> NoError]

\* the entry runTestSuite's catch pushes for test i
ErrorResultOf(testCase, i, message) ==
    [testName |-> IF testCase.name = "" THEN "Test" ELSE testCase.name,
     passed |-> FALSE,
     assertionResults |-> <<>>,
     error |-> message]

(***************************************************************************)
(* evaluateAssertions and the result of runTest (scripts/test-runner.js).  *)
(***************************************************************************)
\* assertion.tolerance || 0
ToleranceOf(assertion) == IF Falsy(assertion.tolerance) THEN Num(0) ELSE assertion.tolerance

\* a strict comparison
LessThan(x, y) == x.t = "number" /\ y.t = "number" /\ x.v < y.v

\* difference <= tolerance; a comparison with NaN or undefined is false
LessOrEqual(x, y) == x.t = "number" /\ y.t = "number" /\ x.v <= y.v

MathAbs(x) == IF x.t = "number" THEN Num(Abs(x.v)) ELSE NaN

EvaluatedAssertion(assertion, outputs) ==
    LET actual == Lookup(outputs, assertion.cell)
        expected == assertion.equals
        tolerance == ToleranceOf(assertion)
        missing == actual = Undefined \/ actual = Null
        numeric == TypeOf(actual) = "number" /\ TypeOf(expected) = "number"
        difference == IF missing \/ ~numeric THEN Null ELSE MathAbs(Minus(actual, expected))
    IN [cell |-> assertion.cell,
        expected |-> expected,
        actual |-> actual,
        tolerance |-> tolerance,
        difference |-> difference,
        passed |-> IF missing THEN FALSE
                   ELSE IF numeric THEN LessOrEqual(difference, tolerance)
                   ELSE StrictEq(actual, expected)]

\* an aggregate that is true as soon as one assertion passed
evaluateAssertionsAny(outputs, assertions) ==
    LET results == [i \in 1..Len(assertions) |-> EvaluatedAssertion(assertions[i], outputs)]
    IN [allPassed |-> \E i \in 1..Len(results) : results[i].passed,
        results |-> results]

evaluateAssertions(outputs, assertions) ==
    LET results == [i \in 1..Len(assertions) |-> EvaluatedAssertion(assertions[i], outputs)]
    IN [allPassed |-> \A i \in 1..Len(results) : results[i].passed,
        results |-> results]

\* the value runTest returns
RunnerResultOf(testCase, outputs) ==
    LET evaluation == evaluateAssertions(outputs, testCase.assertions)
    IN [testName |-> IF testCase.name = "" THEN "Unnamed Test" ELSE testCase.name,
        passed |-> evaluation.allPassed,
        assertionResults |-> evaluation.results]

(***************************************************************************)
(* Collecting the addresses to snapshot: a Set, in insertion order.        *)
(***************************************************************************)
RECURSIVE Distinct(_, _)
Distinct(s, seen) ==
    IF s = <<>> THEN <<>>
    ELSE IF Head(s) \in seen THEN Distinct(Tail(s), seen)
    ELSE <<Head(s)>> \o Distinct(Tail(s), seen \cup {Head(s)})

\* a collection that forgets the assertion cells
InputAddressesOnly(testCase) ==
    [i \in 1..Len(testCase.inputs) |-> testCase.inputs[i].address]

TestAddresses(testCase) ==
    [i \in 1..Len(testCase.inputs) |-> testCase.inputs[i].address]
    \o [i \in 1..Len(testCase.assertions) |-> testCase.assertions[i].cell]

AllCellAddresses(cases) ==
    Distinct(Concat([i \in 1..Len(cases) |-> TestAddresses(cases[i])]), {})

(***************************************************************************)
(* Bounds and the test cases the model draws from.                         *)
(***************************************************************************)
MaxTests == 2
MaxSyncFaults == 1
MaxRuns == 2

Runs == 1..MaxRuns

SeqsUpTo(S, n) == UNION {[1..k -> S] : k \in 0..n}

Input(address, value) == [address |-> address, value |-> value]
Assertion(cell, equals, tolerance) == [cell |-> cell, equals |-> equals, tolerance |-> tolerance]
TestCase(inputs, assertions) == [name |-> "T", inputs |-> inputs, assertions |-> assertions]

\* the test cases of the model: an exact and a toleranced comparison of a
\* computed cell, two assertions without inputs, an input on a worksheet
\* that does not exist, a malformed assertion address, an empty test
TestCaseChoices ==
    {TestCase(<<Input(A1, Num(3))>>, <<Assertion(B1, Num(4), Undefined)>>),
     TestCase(<<Input(A1, Num(3))>>, <<Assertion(B1, Num(3), Num(1))>>),
     TestCase(<<>>, <<Assertion(B1, Num(3), Undefined), Assertion(B1, Num(4), Num(1))>>),
     TestCase(<<Input(X1, Num(3))>>, <<>>),
     TestCase(<<>>, <<Assertion(Bad, Num(3), Undefined)>>),
     TestCase(<<>>, <<>>)}

SuiteChoices == SeqsUpTo(TestCaseChoices, MaxTests)

\* workbooks in a calculated state
DocChoices ==
    {Recalculate([a \in DocCells |->
                    CASE a = A1 -> ca
                      [] a = B1 -> cb
                      [] OTHER -> [value |-> Num(5), formula |-> EmptyStr]]) :
       ca \in {[value |-> Num(1), formula |-> EmptyStr], [value |-> Num(2), formula |-> FConst]},
       cb \in {[value |-> Num(0), formula |-> FRef], [value |-> Bool(TRUE), formula |-> EmptyStr]}}

(***************************************************************************)
(* State.  Engine state is per invocation r of runTestSuite / runTest      *)
(* (each Excel.run has its own request context).                           *)
(***************************************************************************)
VARIABLES
    doc,          \* the workbook: cell -> [value, formula]
    console,      \* what console.error / console.log recorded
    thread,       \* the invocation running JavaScript now, 0 when none is
    testCases,    \* the argument of runTestSuite
    pc,           \* where each invocation is suspended
    queue,        \* the commands queued in each invocation's request context
    ranges,       \* the parallel arrays fullAddresses/ranges of the pending read
    snapshot,     \* [isNull, entries]: the snapshot variable of the invocation
    idx,          \* the loop index i of runTestSuite, from 1
    allResults,   \* allResults of runTestSuite
    passedCount,  \* passedCount of runTestSuite
    returned,     \* what the invocation's promise settled with
    pre,          \* history: the workbook when the invocation was called
    threw,        \* history: the tests whose run threw
    restoreFailed,\* history: the snapshot keys restoreState could not write
    flushed,      \* history: the writes of the invocation the host has run
    faults,       \* history: the number of rejected syncs of the invocation
    ui,           \* the task pane: [isTestRunning, buttonDisabled]; its page while it is set up
    probe         \* the restoreState harness: the host's failures and its history

engineVars ==
    <<doc, console, thread, testCases, pc, queue, ranges, snapshot, idx, allResults,
      passedCount, returned, pre, threw, restoreFailed, flushed, faults>>

auxVars == <<ui, probe>>

NullSnapshot == [isNull |-> TRUE, entries |-> <<>>]
Pending == [status |-> "pending", results |-> <<>>, passedCount |-> 0, totalCount |-> 0,
            error |-> NoError]

EngineInit ==
    /\ console = {}
    /\ thread = 0
    /\ pc = [r \in Runs |-> "idle"]
    /\ queue = [r \in Runs |-> <<>>]
    /\ ranges = [r \in Runs |-> <<>>]
    /\ idx = [r \in Runs |-> 1]
    /\ allResults = [r \in Runs |-> <<>>]
    /\ passedCount = [r \in Runs |-> 0]
    /\ returned = [r \in Runs |-> Pending]
    /\ pre = [r \in Runs |-> doc]
    /\ threw = [r \in Runs |-> {}]
    /\ restoreFailed = [r \in Runs |-> {}]
    /\ flushed = [r \in Runs |-> {}]
    /\ faults = [r \in Runs |-> 0]

SnapshotKeys(r) == {snapshot[r].entries[i].address : i \in 1..Len(snapshot[r].entries)}

\* what the host may refuse when restoreState runs on the snapshot of r
HostFailures(r) ==
    {[failSheets |-> fs, failCells |-> fc] :
       fs \in SUBSET {parseCellAddress(a).worksheetName : a \in SnapshotKeys(r)},
       fc \in SUBSET SnapshotKeys(r)}

Log(kind, what) == [kind |-> kind, what |-> what]

\* the writes of a queue, as the history records them
WritesOf(q) == {[cell |-> q[i].cell, op |-> q[i].op, by |-> q[i].by] :
                  i \in {j \in 1..Len(q) : IsWrite(q[j])}}

\* context.sync() resolves: the queue of r runs against the workbook
SyncResolves(r) ==
    /\ doc' = HostSync(doc, queue[r])
    /\ flushed' = [flushed EXCEPT ![r] = @ \cup WritesOf(queue[r])]
    /\ UNCHANGED faults

\* context.sync() rejects
SyncRejects(r) ==
    /\ faults[r] < MaxSyncFaults
    /\ faults' = [faults EXCEPT ![r] = @ + 1]
    /\ UNCHANGED <<doc, flushed>>

(***************************************************************************)
(* runTestSuite.                                                           *)
(***************************************************************************)
\* from the call to the await inside snapshotWorksheetState, or to its throw
SuiteStartBody(r) ==
    /\ pc[r] = "idle"
    /\ thread = 0
    /\ LET snap == snapshotWorksheetState(AllCellAddresses(testCases))
       IN /\ queue' = [queue EXCEPT ![r] = snap.cmds]
          /\ ranges' = [ranges EXCEPT ![r] = snap.ranges]
          /\ IF snap.threw
             THEN /\ console' = console \cup
                                  {Log("Warning: Failed to create suite-level snapshot", <<>>)}
                  /\ pc' = [pc EXCEPT ![r] = "loop"]
                  /\ thread' = r
             ELSE /\ pc' = [pc EXCEPT ![r] = "snapshotSync"]
                  /\ thread' = 0
                  /\ UNCHANGED console
    /\ pre' = [pre EXCEPT ![r] = doc]
    /\ UNCHANGED <<doc, testCases, snapshot, idx, allResults, passedCount, returned,
                   threw, restoreFailed, flushed, faults>>

SuiteStart(r) == SuiteStartBody(r) /\ UNCHANGED auxVars

\* the sync of snapshotWorksheetState settles; a rejection leaves snapshot null
SnapshotSync(r) ==
    /\ pc[r] = "snapshotSync"
    /\ thread = 0
    /\ \/ /\ SyncResolves(r)
          /\ snapshot' = [snapshot EXCEPT ![r] =
                            [isNull |-> FALSE, entries |-> SnapshotOf(doc', ranges[r])]]
          /\ UNCHANGED console
       \/ /\ SyncRejects(r)
          /\ console' = console \cup
                          {Log("Warning: Failed to create suite-level snapshot", <<>>)}
          /\ UNCHANGED snapshot
    /\ queue' = [queue EXCEPT ![r] = <<>>]
    /\ ranges' = [ranges EXCEPT ![r] = <<>>]
    /\ pc' = [pc EXCEPT ![r] = "loop"]
    /\ thread' = r
    /\ UNCHANGED <<testCases, idx, allResults, passedCount, returned, pre, threw,
                   restoreFailed>>
    /\ UNCHANGED auxVars

\* a counter that counts every result
CountEvery(count, result) == count + 1

\* if (result.passed) { passedCount++; }
CountPassed(count, result) == IF result.passed THEN count + 1 ELSE count

\* a catch that leaves the loop
BreakAfterError(i) == MaxTests + 1

\* the catch of the loop: push the error entry and go on with the next test
NextIndexAfterError(i) == i + 1

TestThrew(r, message) ==
    /\ allResults' = [allResults EXCEPT ![r] =
                        Append(@, ErrorResultOf(testCases[idx[r]], idx[r], message))]
    /\ threw' = [threw EXCEPT ![r] = @ \cup {idx[r]}]
    /\ idx' = [idx EXCEPT ![r] = NextIndexAfterError(@)]
    /\ pc' = [pc EXCEPT ![r] = "loop"]
    /\ thread' = r
    /\ UNCHANGED passedCount

\* top of the loop: applyInputs up to its sync, or forceRecalculate up to its sync
TestBegin(r) ==
    /\ pc[r] = "loop"
    /\ thread = r
    /\ idx[r] <= Len(testCases)
    /\ LET inputs == testCases[idx[r]].inputs
           ap == applyInputs(inputs)
       IN IF Len(inputs) > 0
          THEN /\ queue' = [queue EXCEPT ![r] = @ \o ap.cmds]
               /\ IF ap.threw
                  THEN TestThrew(r, ap.error)
                  ELSE /\ pc' = [pc EXCEPT ![r] = "applySync"]
                       /\ thread' = 0
                       /\ UNCHANGED <<allResults, threw, idx, passedCount>>
          ELSE /\ queue' = [queue EXCEPT ![r] = Append(@, CalculateCmd("forceRecalculate"))]
               /\ pc' = [pc EXCEPT ![r] = "recalcSync"]
               /\ thread' = 0
               /\ UNCHANGED <<allResults, threw, idx, passedCount>>
    /\ UNCHANGED <<doc, console, testCases, ranges, snapshot, returned, pre,
                   restoreFailed, flushed, faults>>
    /\ UNCHANGED auxVars

\* the sync of applyInputs settles; on success forceRecalculate queues its request
ApplySync(r) ==
    /\ pc[r] = "applySync"
    /\ thread = 0
    /\ \/ /\ SyncResolves(r)
          /\ queue' = [queue EXCEPT ![r] = <<CalculateCmd("forceRecalculate")>>]
          /\ pc' = [pc EXCEPT ![r] = "recalcSync"]
          /\ thread' = 0
          /\ UNCHANGED <<allResults, threw, idx, passedCount>>
       \/ /\ SyncRejects(r)
          /\ queue' = [queue EXCEPT ![r] = <<>>]
          /\ TestThrew(r, "sync rejected")
    /\ UNCHANGED <<console, testCases, ranges, snapshot, returned, pre, restoreFailed>>
    /\ UNCHANGED auxVars

\* the sync of forceRecalculate settles; on success the settle timer is armed
RecalcSync(r) ==
    /\ pc[r] = "recalcSync"
    /\ thread = 0
    /\ \/ /\ SyncResolves(r)
          /\ pc' = [pc EXCEPT ![r] = "settle"]
          /\ thread' = 0
          /\ UNCHANGED <<allResults, threw, idx, passedCount>>
       \/ /\ SyncRejects(r)
          /\ TestThrew(r, "sync rejected")
    /\ queue' = [queue EXCEPT ![r] = <<>>]
    /\ UNCHANGED <<console, testCases, ranges, snapshot, returned, pre, restoreFailed>>
    /\ UNCHANGED auxVars

\* the 100 ms timer fires: readOutputs up to its sync, or to its throw
Settle(r) ==
    /\ pc[r] = "settle"
    /\ thread = 0
    /\ LET assertions == testCases[idx[r]].assertions
           rd == readOutputs([i \in 1..Len(assertions) |-> assertions[i].cell])
       IN /\ queue' = [queue EXCEPT ![r] = @ \o rd.cmds]
          /\ ranges' = [ranges EXCEPT ![r] = rd.ranges]
          /\ IF rd.threw
             THEN TestThrew(r, rd.error)
             ELSE /\ pc' = [pc EXCEPT ![r] = "readSync"]
                  /\ thread' = 0
                  /\ UNCHANGED <<allResults, threw, idx, passedCount>>
    /\ UNCHANGED <<doc, console, testCases, snapshot, returned, pre, restoreFailed,
                   flushed, faults>>
    /\ UNCHANGED auxVars

\* the sync of readOutputs settles; on success the assertions are evaluated
ReadSync(r) ==
    /\ pc[r] = "readSync"
    /\ thread = 0
    /\ \/ /\ SyncResolves(r)
          /\ LET testCase == testCases[idx[r]]
                 outputs == OutputsOf(doc', ranges[r])
                 result == TestResultOf(testCase, outputs)
             IN IF \E i \in 1..Len(testCase.assertions) :
                      AssertionThrows(testCase.assertions[i], outputs)
                THEN TestThrew(r, "expectedValue.toLowerCase is not a function")
                ELSE /\ allResults' = [allResults EXCEPT ![r] = Append(@, result)]
                     /\ passedCount' = [passedCount EXCEPT ![r] = CountPassed(@, result)]
                     /\ idx' = [idx EXCEPT ![r] = @ + 1]
                     /\ pc' = [pc EXCEPT ![r] = "loop"]
                     /\ thread' = r
                     /\ UNCHANGED threw
       \/ /\ SyncRejects(r)
          /\ TestThrew(r, "sync rejected")
    /\ queue' = [queue EXCEPT ![r] = <<>>]
    /\ ranges' = [ranges EXCEPT ![r] = <<>>]
    /\ UNCHANGED <<console, testCases, snapshot, returned, pre, restoreFailed>>
    /\ UNCHANGED auxVars

\* a return value replaced by the error of the finally block
SuiteResultLost(r) ==
    [status |-> "rejected", results |-> <<>>, passedCount |-> 0, totalCount |-> 0,
     error |-> "Failed to restore state"]

\* the value of the return statement of runTestSuite
SuiteResultOf(r) ==
    [status |-> "resolved", results |-> allResults[r], passedCount |-> passedCount[r],
     totalCount |-> Len(testCases), error |-> NoError]

\* a finally block that skips the restore
SuiteSkipsRestore(snap) == FALSE

\* the finally block of runTestSuite: if (snapshot)
SuiteRestores(snap) == ~snap.isNull

\* after the loop: the finally block, up to the await inside restoreState
SuiteFinish(r) ==
    /\ pc[r] = "loop"
    /\ thread = r
    /\ idx[r] > Len(testCases)
    /\ thread' = 0
    /\ IF ~SuiteRestores(snapshot[r])
       THEN /\ pc' = [pc EXCEPT ![r] = "done"]
            /\ returned' = [returned EXCEPT ![r] = SuiteResultOf(r)]
            /\ UNCHANGED <<queue, console, restoreFailed>>
       ELSE \E h \in HostFailures(r) :
              LET rs == restoreState(snapshot[r].entries, h.failSheets, h.failCells)
              IN /\ queue' = [queue EXCEPT ![r] = @ \o rs.cmds]
                 /\ console' = console \cup rs.errors
                 /\ restoreFailed' = [restoreFailed EXCEPT ![r] =
                      Offending(snapshot[r].entries, h.failSheets, h.failCells)]
                 /\ pc' = [pc EXCEPT ![r] = "restoreSync"]
                 /\ UNCHANGED returned
    /\ UNCHANGED <<doc, testCases, ranges, snapshot, idx, allResults, passedCount, pre,
                   threw, flushed, faults>>
    /\ UNCHANGED auxVars

\* the sync of restoreState settles; either way the suite result is returned
RestoreSync(r) ==
    /\ pc[r] = "restoreSync"
    /\ thread = 0
    /\ \/ /\ SyncResolves(r)
          /\ console' = console \cup {Log("State restored successfully", <<>>)}
       \/ /\ SyncRejects(r)
          /\ console' = console \cup {Log("Failed to restore state", <<>>)}
    /\ queue' = [queue EXCEPT ![r] = <<>>]
    /\ pc' = [pc EXCEPT ![r] = "done"]
    /\ returned' = [returned EXCEPT ![r] = SuiteResultOf(r)]
    /\ thread' = 0
    /\ UNCHANGED <<testCases, ranges, snapshot, idx, allResults, passedCount, pre,
                   threw, restoreFailed>>
    /\ UNCHANGED auxVars

(***************************************************************************)
(* One call of runTestSuite on a workbook.                                 *)
(***************************************************************************)
vars == <<engineVars, auxVars>>

PaneIdle == [isTestRunning |-> FALSE, buttonDisabled |-> FALSE]
NoProbe == [failSheets |-> {}, failCells |-> {}, captured |-> <<>>, first |-> <<>>]

Init ==
    /\ doc \in DocChoices
    /\ testCases \in SuiteChoices
    /\ EngineInit
    /\ snapshot = [r \in Runs |-> NullSnapshot]
    /\ ui = PaneIdle
    /\ probe = NoProbe

Next ==
    \/ SuiteStart(1)
    \/ SnapshotSync(1)
    \/ TestBegin(1)
    \/ ApplySync(1)
    \/ RecalcSync(1)
    \/ Settle(1)
    \/ ReadSync(1)
    \/ SuiteFinish(1)
    \/ RestoreSync(1)

Spec == Init /\ [][Next]_vars

\* the program points of runTestSuite
ProgramPoints ==
    {"idle", "snapshotSync", "loop", "applySync", "recalcSync", "settle", "readSync",
     "restoreSync", "done"}

\* the call moves on: some continuation of it runs, which changes its program
\* point or its loop index.  Every step of Next is such a step and the call
\* has one to take at every program point but "done" (NeverStuck), so this
\* is Next seen through pc and idx.
Progress(r) ==
    /\ pc[r] # "done"
    /\ \E p \in ProgramPoints, i \in 1..(MaxTests + 1) :
         /\ p # pc[r] \/ i # idx[r]
         /\ pc' = [pc EXCEPT ![r] = p]
         /\ idx' = [idx EXCEPT ![r] = i]

\* the same call when nothing stalls: a continuation that is ready is run by
\* the event loop, the host settles every sync (resolving or rejecting it)
\* and the settle timer of forceRecalculate fires.  The fairness is on the
\* call as a whole, never on a choice of outcome.
SpecLive == Init /\ [][Next]_vars /\ WF_<<pc, idx>>(Progress(1))

\* before "done" the next step of the call changes pc or idx, and there is one
NeverStuck ==
    [][/\ pc'[1] # pc[1] \/ idx'[1] # idx[1]
       /\ pc'[1] \in ProgramPoints
       /\ idx'[1] \in 1..(MaxTests + 1)]_vars

(***************************************************************************)
(* Properties of one runTestSuite call (checked under Spec).               *)
(***************************************************************************)
\* the protected-address set: every input and assertion address of every test
Protected == {AllCellAddresses(testCases)[i] : i \in 1..Len(AllCellAddresses(testCases))}

\* the capture step of r is over and it failed
CaptureFailed(r) == pc[r] \notin {"idle", "snapshotSync"} /\ snapshot[r].isNull

\* C1: once runTestSuite has completed, every protected cell holds the
\* {value, formula} it held immediately before the call, unless a restore
\* error was reported for that cell - whatever step threw, capture included.
C1_AlwaysRestore ==
    pc[1] = "done" =>
      \A a \in Protected \cap DocCells :
        \/ doc[a] = pre[1][a]
        \/ a \in restoreFailed[1]
        \/ Log("Failed to restore state", <<>>) \in console

\* C2: when capturing the snapshot fails, runTestSuite aborts before any
\* mutation: no input is written, no test is executed, and the caller gets a
\* snapshot-failure error.
C2_AbortOnCaptureFailure ==
    CaptureFailed(1) =>
      /\ flushed[1] = {}
      /\ allResults[1] = <<>>
      /\ pc[1] \in {"loop", "done"}
      /\ pc[1] = "done" => returned[1].status = "rejected"

\* the tolerance an assertion declares, 0 by default
DeclaredTolerance(assertion) ==
    IF assertion.tolerance.t = "number" THEN assertion.tolerance.v ELSE 0

\* C6: in the SuiteResult, an assertion with numeric actual and expected
\* passes exactly when |actual - expected| <= tolerance.
C6_NumericTolerance ==
    pc[1] = "done" =>
      \A i \in 1..Len(returned[1].results) :
        \A k \in 1..Len(returned[1].results[i].assertionResults) :
          LET ar == returned[1].results[i].assertionResults[k]
              assertion == testCases[i].assertions[k]
          IN (ar.actual.t = "number" /\ assertion.equals.t = "number") =>
               (ar.passed <=> Abs(ar.actual.v - assertion.equals.v) <= DeclaredTolerance(assertion))

\* C5: the suite result has one entry per test, in test order; a test that
\* threw has passed = false and a non-null error and does not stop the tests
\* after it; every other entry carries that test's own assertions and outcome.
C5_SuiteIndependence ==
    pc[1] = "done" =>
      /\ Len(returned[1].results) = Len(testCases)
      /\ \A i \in 1..Len(testCases) :
           LET res == returned[1].results[i]
           IN IF i \in threw[1]
              THEN res.passed = FALSE /\ res.error # NoError
              ELSE /\ res.error = NoError
                   /\ Len(res.assertionResults) = Len(testCases[i].assertions)
                   /\ \A k \in 1..Len(res.assertionResults) :
                        /\ res.assertionResults[k].cell = testCases[i].assertions[k].cell
                        /\ res.assertionResults[k].expected = testCases[i].assertions[k].equals
                   /\ res.passed = (\A k \in 1..Len(res.assertionResults) :
                                      res.assertionResults[k].passed)

\* a first test that threw, followed by a second test that ran and passed
C5_Witness ==
    /\ pc[1] = "done"
    /\ Len(testCases) = 2
    /\ threw[1] = {1}
    /\ returned[1].results[2].passed
    /\ Len(returned[1].results[2].assertionResults) = 1

\* C10: snapshotWorksheetState has no side effect on the workbook: no step
\* of it - returning a snapshot, or failing on a missing sheet, a malformed
\* address or a rejected sync - changes the value or formula of any cell.
C10_SnapshotNoSideEffect ==
    [][pc[1] \in {"idle", "snapshotSync"} => doc' = doc]_vars

\* a snapshot of cells on both sheets has been returned
C10_Witness ==
    /\ pc[1] = "loop"
    /\ idx[1] = 1
    /\ ~snapshot[1].isNull
    /\ {A1, B1} \subseteq SnapshotKeys(1)

\* keys(inputs) and the cell of every assertion, over every test case
DeclaredAddresses ==
    UNION {{testCases[i].inputs[k].address : k \in 1..Len(testCases[i].inputs)}
           \cup {testCases[i].assertions[k].cell : k \in 1..Len(testCases[i].assertions)} :
           i \in 1..Len(testCases)}

\* C11: a captured snapshot is keyed by exactly the protected-address set:
\* every input key and assertion cell of every test case is a key, nothing
\* else is, and an address mentioned several times is one entry.
C11_SnapshotKeys ==
    ~snapshot[1].isNull =>
      /\ SnapshotKeys(1) = DeclaredAddresses
      /\ Len(snapshot[1].entries) = Cardinality(DeclaredAddresses)

\* a snapshot of two cells for two tests that both write A!1 and read B!1
C11_Witness ==
    /\ ~snapshot[1].isNull
    /\ SnapshotKeys(1) = {A1, B1}
    /\ Len(testCases) = 2
    /\ \A i \in 1..2 : Len(testCases[i].inputs) = 1 /\ Len(testCases[i].assertions) = 1

\* the writes of the tests that the host has run
TestWrites(r) == {w \in flushed[r] : w.by = "applyInputs"}

\* the writes of restoreState that the host has run
RestoreWrites(r) == {w \in flushed[r] : w.by = "restoreState"}

\* C12: in one runTestSuite call exactly one snapshot is captured, before
\* the first write of the first test; it is restored exactly once, after
\* the last test has been evaluated or has failed; tests run one after
\* another; and no write reaches the workbook after that restore.
C12_Lifecycle ==
    [][/\ snapshot'[1] # snapshot[1] =>
            snapshot[1].isNull /\ flushed[1] = {} /\ allResults[1] = <<>>
       /\ TestWrites(1)' # {} => ~snapshot[1].isNull
       /\ Len(allResults'[1]) = idx'[1] - 1
       /\ idx'[1] \in {idx[1], idx[1] + 1}
       /\ (pc[1] # "restoreSync" /\ pc'[1] = "restoreSync") =>
            idx[1] > Len(testCases) /\ RestoreWrites(1) = {}
       /\ (pc[1] # "done" /\ pc'[1] = "done" /\ TestWrites(1) # {}) => pc[1] = "restoreSync"
       /\ pc[1] = "done" => doc' = doc]_vars

\* C13: the workbook is snapshotted before each test and restored after it:
\* when a test of the suite starts applying its inputs, every protected cell
\* holds the value and formula it had before the suite started (stated for
\* the suites whose snapshot was captured).
C13_PerTestIsolation ==
    (pc[1] = "loop" /\ idx[1] <= Len(testCases) /\ ~snapshot[1].isNull) =>
      \A a \in DeclaredAddresses \cap DocCells : doc[a] = pre[1][a]

\* C15: a restore failure never changes the outcome: when restoreState has
\* run, whether its sync resolved or rejected and whatever it could not
\* write, runTestSuite resolves with exactly the results and the passed
\* count the tests produced, and no restore error reaches the caller.
C15_RestoreFailureKeepsOutcome ==
    [][(pc[1] = "restoreSync" /\ pc'[1] = "done") =>
         /\ returned'[1].status = "resolved"
         /\ returned'[1].error = NoError
         /\ returned'[1].results = allResults[1]
         /\ returned'[1].passedCount = passedCount[1]
         /\ returned'[1].totalCount = Len(testCases)
         /\ allResults'[1] = allResults[1]]_vars

\* the restore's sync was rejected after a test had passed
C15_Witness ==
    /\ pc[1] = "done"
    /\ Log("Failed to restore state", <<>>) \in console
    /\ returned[1].status = "resolved"
    /\ returned[1].passedCount > 0

\* restoreState was called on the snapshot and its sync has settled
RestoreSettled ==
    \/ Log("State restored successfully", <<>>) \in console
    \/ Log("Failed to restore state", <<>>) \in console

\* C20: when the apply, recalculate, read or evaluate phase of a test throws
\* inside runTestSuite, that test's entry has passed = false, no assertion
\* results and the thrown error's message, and the restore at the end of the
\* region still takes place.
C20_ThrowingTest ==
    (pc[1] = "done" /\ threw[1] # {}) =>
      /\ \A i \in threw[1] :
           /\ returned[1].results[i].passed = FALSE
           /\ returned[1].results[i].assertionResults = <<>>
           /\ returned[1].results[i].error \in
                {"Invalid cell address format", "Failed to apply input to worksheet",
                 "Failed to read output from cell", "sync rejected",
                 "expectedValue.toLowerCase is not a function"}
      /\ RestoreSettled

QueuedBy(r, by) == {k \in 1..Len(queue[r]) : queue[r][k].by = by}

\* C23: within each test the phases come in the order apply -> recalculate
\* -> read -> evaluate: the recalculation is requested only once every input
\* write of the test has been flushed; the assertion cells are loaded only
\* after the recalculation's sync resolved and the settle timer fired; the
\* actual values of the result are those the workbook holds at the sync of
\* that read; and restoreState starts only after every test has been
\* evaluated or has failed.
C23_PhaseOrder ==
    [][/\ (QueuedBy(1, "forceRecalculate")' # {} /\ QueuedBy(1, "forceRecalculate") = {}) =>
            /\ pc[1] \in {"loop", "applySync"}
            /\ QueuedBy(1, "applyInputs")' = {}
            /\ \A k \in 1..Len(testCases[idx[1]].inputs) :
                 \E w \in TestWrites(1)' : w.cell = testCases[idx[1]].inputs[k].address
       /\ (pc[1] # "settle" /\ pc'[1] = "settle") =>
            /\ pc[1] = "recalcSync"
            /\ QueuedBy(1, "forceRecalculate") # {}
            /\ faults' = faults
       /\ (QueuedBy(1, "readOutputs")' # {} /\ QueuedBy(1, "readOutputs") = {}) =>
            pc[1] = "settle"
       /\ (idx'[1] = idx[1] + 1 /\ idx[1] \notin threw'[1]) =>
            /\ pc[1] = "readSync"
            /\ QueuedBy(1, "readOutputs") = 1..Len(queue[1])
            /\ Len(queue[1]) = Len(testCases[idx[1]].assertions)
            /\ \A k \in 1..Len(testCases[idx[1]].assertions) :
                 allResults'[1][idx[1]].assertionResults[k].actual
                   = doc'[testCases[idx[1]].assertions[k].cell].value
       /\ (QueuedBy(1, "restoreState")' # {} /\ QueuedBy(1, "restoreState") = {}) =>
            /\ pc[1] = "loop"
            /\ idx[1] > Len(testCases)
            /\ Len(allResults[1]) = Len(testCases)]_vars

\* a test wrote its input, recalculated, read and was evaluated as passed
C23_Witness ==
    /\ pc[1] = "loop"
    /\ idx[1] = 2
    /\ ~snapshot[1].isNull
    /\ TestWrites(1) # {}
    /\ allResults[1][1].passed
    /\ Len(allResults[1][1].assertionResults) = 1

C29_EntryFields ==
    (pc[1] = "done" /\ returned[1].status = "resolved") =>
      \A i \in 1..Len(returned[1].results) :
        LET entry == returned[1].results[i]
        IN /\ {"testName", "passed", "assertionResults", "error"} \subseteq DOMAIN entry
           /\ entry.testName # ""
           /\ testCases[i].name # "" => entry.testName = testCases[i].name

\* the cell writes of invocation r: those the host has run and those queued
IssuedWrites(r) ==
    flushed[r] \cup WritesOf(queue[r])

\* C32: the engine writes to protected cells only: every cell write that
\* applyInputs or restoreState issues in the region targets an input or
\* assertion address of the region's tests, and when the capture succeeded
\* every address applyInputs writes is a key of the snapshot.
C32_WritesProtectedOnly ==
    \A w \in IssuedWrites(1) :
      /\ w.by \in {"applyInputs", "restoreState"}
      /\ w.cell \in Protected
      /\ (w.by = "applyInputs" /\ ~snapshot[1].isNull) => w.cell \in SnapshotKeys(1)

\* a test wrote its input, the restore wrote it back, and A!2 was never named
C32_Witness ==
    /\ pc[1] = "done"
    /\ ~snapshot[1].isNull
    /\ \E w \in flushed[1] : w.by = "applyInputs" /\ w.cell = A1
    /\ \E w \in flushed[1] : w.by = "restoreState" /\ w.cell = A1
    /\ \E w \in flushed[1] : w.by = "restoreState" /\ w.cell = B1
    /\ A2 \notin Protected

\* C36: a test that completes without throwing has one assertion result
\* for each declared assertion, in the order declared, and result k carries
\* the cell of assertion k and the value the read found in that cell, also
\* when several assertions name one cell.
C36_OneResultPerAssertion ==
    [][(idx'[1] = idx[1] + 1 /\ idx[1] \notin threw'[1]) =>
         LET assertions == testCases[idx[1]].assertions
             results == allResults'[1][idx[1]].assertionResults
         IN /\ Len(results) = Len(assertions)
            /\ \A k \in 1..Len(assertions) :
                 /\ results[k].cell = assertions[k].cell
                 /\ results[k].actual = doc'[assertions[k].cell].value]_vars

\* a test with two assertions on B!1 has two results, both with the value read
C36_Witness ==
    /\ Len(allResults[1]) >= 1
    /\ 1 \notin threw[1]
    /\ Len(testCases[1].assertions) = 2
    /\ testCases[1].assertions[1].cell = testCases[1].assertions[2].cell
    /\ Len(allResults[1][1].assertionResults) = 2
    /\ allResults[1][1].assertionResults[1].cell = B1
    /\ allResults[1][1].assertionResults[2].cell = B1
    /\ allResults[1][1].assertionResults[1].actual = allResults[1][1].assertionResults[2].actual
    /\ allResults[1][1].assertionResults[1].expected # allResults[1][1].assertionResults[2].expected

(***************************************************************************)
(* runTestSuite called twice in succession with the same test cases on the *)
(* same workbook: invocation 2 is called once invocation 1 has returned.   *)
(* The host is at its best in both: every sync resolves and restoreState   *)
(* is refused nothing.                                                     *)
(***************************************************************************)
\* the suites of the two calls: a test that reads B!1, a test that writes
\* A!1 and reads B!1, a test whose input names a worksheet that does not
\* exist
TwiceSuiteChoices ==
    LET reads == TestCase(<<>>, <<Assertion(B1, Num(3), Undefined), Assertion(B1, Num(4), Num(1))>>)
        writes == TestCase(<<Input(A1, Num(3))>>, <<Assertion(B1, Num(4), Undefined)>>)
        missing == TestCase(<<Input(X1, Num(3))>>, <<>>)
    IN {<<writes>>, <<reads, writes>>, <<writes, reads>>, <<writes, missing>>,
        <<reads, writes, missing>>, <<missing, reads, writes>>}

TwiceInit ==
    /\ doc \in DocChoices
    /\ testCases \in TwiceSuiteChoices
    /\ EngineInit
    /\ snapshot = [r \in Runs |-> NullSnapshot]
    /\ ui = PaneIdle
    /\ probe = NoProbe

\* no sync is rejected and no cell or worksheet is refused to restoreState
HostAtItsBest == faults' = faults /\ restoreFailed' = restoreFailed

\* a step of invocation r of runTestSuite
TwiceStep(r) ==
    /\ \/ SuiteStart(r)
       \/ SnapshotSync(r)
       \/ TestBegin(r)
       \/ ApplySync(r)
       \/ RecalcSync(r)
       \/ Settle(r)
       \/ ReadSync(r)
       \/ SuiteFinish(r)
       \/ RestoreSync(r)
    /\ HostAtItsBest

\* await runTestSuite(testCases); await runTestSuite(testCases)
NextTwice ==
    \/ TwiceStep(1)
    \/ pc[1] = "done" /\ TwiceStep(2)

SpecTwice == TwiceInit /\ [][NextTwice]_vars

\* C35: runTestSuite keeps no state between calls: called twice in
\* succession with the same test cases on the same workbook, it returns two
\* identical results, and the workbook after the second call is as the first
\* call left it.
C35_TwiceTheSame ==
    (pc[1] = "done" /\ pc[2] = "done") =>
      /\ returned[2] = returned[1]
      /\ doc = pre[2]

(***************************************************************************)
(* runTest of scripts/test-runner.js: one test case in its own region.     *)
(* Invocation r runs testCases[r]; allResults[r] holds the outcome of the   *)
(* try block while the finally block runs.                                 *)
(***************************************************************************)
Resolved(value) == [status |-> "resolved", value |-> value]
\* a rejection that loses the message it was given
RejectedBare(message) == [status |-> "rejected", error |-> "Error"]

Rejected(message) == [status |-> "rejected", error |-> message]

\* a finally block that never restores
NeverRestores(snap) == FALSE

\* if (snapshot)
FinallyRestores(snap) == ~snap.isNull

\* the try block threw: control passes to the finally block
RunThrew(r, message) ==
    /\ allResults' = [allResults EXCEPT ![r] = <<Rejected(message)>>]
    /\ threw' = [threw EXCEPT ![r] = {1}]
    /\ pc' = [pc EXCEPT ![r] = "finally"]
    /\ thread' = r

RunGoesOn(r, next) ==
    /\ pc' = [pc EXCEPT ![r] = next]
    /\ thread' = 0
    /\ UNCHANGED <<allResults, threw>>

RunFrame == UNCHANGED <<testCases, idx, passedCount, ui, probe>>

\* from the call to the await inside snapshotWorksheetState, or to the rethrow
RunTestStart(r) ==
    /\ pc[r] = "idle"
    /\ thread = 0
    /\ r <= Len(testCases)
    /\ LET snap == snapshotWorksheetState(AllCellAddresses(<<testCases[r]>>))
       IN /\ queue' = [queue EXCEPT ![r] = snap.cmds]
          /\ ranges' = [ranges EXCEPT ![r] = snap.ranges]
          /\ IF snap.threw
             THEN /\ pc' = [pc EXCEPT ![r] = "done"]
                  /\ returned' = [returned EXCEPT ![r] = Rejected("Failed to snapshot state")]
             ELSE /\ pc' = [pc EXCEPT ![r] = "snapshotSync"]
                  /\ UNCHANGED returned
    /\ pre' = [pre EXCEPT ![r] = doc]
    /\ UNCHANGED <<doc, console, thread, snapshot, allResults, threw, restoreFailed,
                   flushed, faults>>
    /\ RunFrame

\* the sync of snapshotWorksheetState settles; a rejection is rethrown
RunSnapshotSync(r) ==
    /\ pc[r] = "snapshotSync"
    /\ thread = 0
    /\ \/ /\ SyncResolves(r)
          /\ snapshot' = [snapshot EXCEPT ![r] =
                            [isNull |-> FALSE, entries |-> SnapshotOf(doc', ranges[r])]]
          /\ pc' = [pc EXCEPT ![r] = "try"]
          /\ thread' = r
          /\ UNCHANGED returned
       \/ /\ SyncRejects(r)
          /\ pc' = [pc EXCEPT ![r] = "done"]
          /\ returned' = [returned EXCEPT ![r] = Rejected("Failed to snapshot state")]
          /\ UNCHANGED <<snapshot, thread>>
    /\ queue' = [queue EXCEPT ![r] = <<>>]
    /\ ranges' = [ranges EXCEPT ![r] = <<>>]
    /\ UNCHANGED <<console, allResults, pre, threw, restoreFailed>>
    /\ RunFrame

\* the try block: applyInputs up to its sync, or forceRecalculate up to its sync
RunTry(r) ==
    /\ pc[r] = "try"
    /\ thread = r
    /\ LET inputs == testCases[r].inputs
           ap == applyInputs(inputs)
       IN IF Len(inputs) > 0
          THEN /\ queue' = [queue EXCEPT ![r] = @ \o ap.cmds]
               /\ IF ap.threw THEN RunThrew(r, ap.error) ELSE RunGoesOn(r, "applySync")
          ELSE /\ queue' = [queue EXCEPT ![r] = Append(@, CalculateCmd("forceRecalculate"))]
               /\ RunGoesOn(r, "recalcSync")
    /\ UNCHANGED <<doc, console, ranges, snapshot, returned, pre, restoreFailed,
                   flushed, faults>>
    /\ RunFrame

RunApplySync(r) ==
    /\ pc[r] = "applySync"
    /\ thread = 0
    /\ \/ /\ SyncResolves(r)
          /\ queue' = [queue EXCEPT ![r] = <<CalculateCmd("forceRecalculate")>>]
          /\ RunGoesOn(r, "recalcSync")
       \/ /\ SyncRejects(r)
          /\ queue' = [queue EXCEPT ![r] = <<>>]
          /\ RunThrew(r, "sync rejected")
    /\ UNCHANGED <<console, ranges, snapshot, returned, pre, restoreFailed>>
    /\ RunFrame

RunRecalcSync(r) ==
    /\ pc[r] = "recalcSync"
    /\ thread = 0
    /\ \/ SyncResolves(r) /\ RunGoesOn(r, "settle")
       \/ SyncRejects(r) /\ RunThrew(r, "sync rejected")
    /\ queue' = [queue EXCEPT ![r] = <<>>]
    /\ UNCHANGED <<console, ranges, snapshot, returned, pre, restoreFailed>>
    /\ RunFrame

\* the 100 ms timer fires: readOutputs up to its sync, or to its throw
RunSettle(r) ==
    /\ pc[r] = "settle"
    /\ thread = 0
    /\ LET assertions == testCases[r].assertions
           rd == readOutputs([i \in 1..Len(assertions) |-> assertions[i].cell])
       IN /\ queue' = [queue EXCEPT ![r] = @ \o rd.cmds]
          /\ ranges' = [ranges EXCEPT ![r] = rd.ranges]
          /\ IF rd.threw THEN RunThrew(r, rd.error) ELSE RunGoesOn(r, "readSync")
    /\ UNCHANGED <<doc, console, snapshot, returned, pre, restoreFailed, flushed, faults>>
    /\ RunFrame

\* the sync of readOutputs settles; on success evaluateAssertions gives the result
RunReadSync(r) ==
    /\ pc[r] = "readSync"
    /\ thread = 0
    /\ \/ /\ SyncResolves(r)
          /\ allResults' = [allResults EXCEPT ![r] =
               <<Resolved(RunnerResultOf(testCases[r], OutputsOf(doc', ranges[r])))>>]
          /\ pc' = [pc EXCEPT ![r] = "finally"]
          /\ thread' = r
          /\ UNCHANGED threw
       \/ /\ SyncRejects(r)
          /\ RunThrew(r, "sync rejected")
    /\ queue' = [queue EXCEPT ![r] = <<>>]
    /\ ranges' = [ranges EXCEPT ![r] = <<>>]
    /\ UNCHANGED <<console, snapshot, returned, pre, restoreFailed>>
    /\ RunFrame

\* the finally block, up to the await inside restoreState
RunFinally(r) ==
    /\ pc[r] = "finally"
    /\ thread = r
    /\ thread' = 0
    /\ IF FinallyRestores(snapshot[r])
       THEN \E h \in HostFailures(r) :
              LET rs == restoreStateOfRunner(snapshot[r].entries, h.failSheets, h.failCells)
              IN /\ queue' = [queue EXCEPT ![r] = @ \o rs.cmds]
                 /\ console' = console \cup rs.errors
                 /\ restoreFailed' = [restoreFailed EXCEPT ![r] =
                      RunnerOffending(snapshot[r].entries, h.failSheets, h.failCells)]
                 /\ pc' = [pc EXCEPT ![r] = "restoreSync"]
                 /\ UNCHANGED returned
       ELSE /\ pc' = [pc EXCEPT ![r] = "done"]
            /\ returned' = [returned EXCEPT ![r] = allResults[r][1]]
            /\ UNCHANGED <<queue, console, restoreFailed>>
    /\ UNCHANGED <<doc, ranges, snapshot, allResults, pre, threw, flushed, faults>>
    /\ RunFrame

\* the sync of restoreState settles: a rejection is logged, not thrown
RunRestoreSync(r) ==
    /\ pc[r] = "restoreSync"
    /\ thread = 0
    /\ \/ SyncResolves(r) /\ UNCHANGED console
       \/ /\ SyncRejects(r)
          /\ console' = console \cup {Log("Warning: Failed to restore state", <<>>)}
    /\ queue' = [queue EXCEPT ![r] = <<>>]
    /\ pc' = [pc EXCEPT ![r] = "done"]
    /\ returned' = [returned EXCEPT ![r] = allResults[r][1]]
    /\ UNCHANGED <<thread, ranges, snapshot, allResults, pre, threw, restoreFailed>>
    /\ RunFrame

RunTestInit ==
    /\ doc \in DocChoices
    /\ testCases \in {<<testCase>> : testCase \in TestCaseChoices}
    /\ EngineInit
    /\ snapshot = [r \in Runs |-> NullSnapshot]
    /\ ui = PaneIdle
    /\ probe = NoProbe

NextRunTest ==
    \/ RunTestStart(1)
    \/ RunSnapshotSync(1)
    \/ RunTry(1)
    \/ RunApplySync(1)
    \/ RunRecalcSync(1)
    \/ RunSettle(1)
    \/ RunReadSync(1)
    \/ RunFinally(1)
    \/ RunRestoreSync(1)

SpecRunTest == RunTestInit /\ [][NextRunTest]_vars

(***************************************************************************)
(* Properties of runTest (checked under SpecRunTest).                      *)
(***************************************************************************)
\* the console holds an error of restoreState
RestoreErrorLogged ==
    \E l \in console :
      l.kind \in {"Warning: Failed to restore state", "Failed to restore cell in worksheet"}

\* C3 as stated: once runTest has settled with a captured snapshot, every
\* cell named in the test's inputs or assertions holds its pre-test
\* {value, formula}, whatever the try block did.
C3_AlwaysRestores ==
    (pc[1] = "done" /\ ~snapshot[1].isNull) =>
      \A a \in Protected : doc[a] = pre[1][a]

\* C3 amended: once runTest has settled with a captured snapshot, every cell
\* named in the test's inputs or assertions holds its pre-test
\* {value, formula}, whatever the try block did, unless restoreState logged
\* an error.
C3_RestoresUnlessRestoreError ==
    (pc[1] = "done" /\ ~snapshot[1].isNull /\ ~RestoreErrorLogged) =>
      \A a \in Protected : doc[a] = pre[1][a]

\* an input was written over a formula, a later step threw, and the formula
\* is back
C3_Witness ==
    /\ pc[1] = "done"
    /\ ~snapshot[1].isNull
    /\ ~RestoreErrorLogged
    /\ threw[1] # {}
    /\ \E w \in flushed[1] : w.by = "applyInputs" /\ w.cell = A1
    /\ pre[1][A1].formula = FConst
    /\ doc[A1].formula = FConst

\* C14: if snapshotWorksheetState fails, runTest rejects with 'Failed to
\* snapshot state: ...' and has issued no cell write, no recalculation
\* request and no restore: its request context holds loads only, nothing
\* was written and the workbook is as it was.
C14_SnapshotFailureRejects ==
    snapshot[1].isNull =>
      /\ \A k \in 1..Len(queue[1]) : queue[1][k].op = "load"
      /\ flushed[1] = {}
      /\ doc = pre[1]
      /\ ~RestoreErrorLogged
      /\ pc[1] \in {"idle", "snapshotSync", "done"}
      /\ pc[1] = "done" => returned[1] = [status |-> "rejected",
                                         error |-> "Failed to snapshot state"]

\* a test with an input whose snapshot failed
C14_Witness ==
    /\ pc[1] = "done"
    /\ snapshot[1].isNull
    /\ returned[1].status = "rejected"
    /\ Len(testCases[1].inputs) > 0

\* runTest settles with the outcome of its try block, whether the sync of
\* restoreState resolved or rejected (supports C15 for runTest)
RunTestOutcomeKept ==
    [][(pc[1] = "restoreSync" /\ pc'[1] = "done") =>
         /\ returned'[1] = allResults[1][1]
         /\ returned'[1].status = "rejected" =>
              returned'[1].error \notin {"Warning: Failed to restore state",
                                         "Failed to restore cell in worksheet"}]_vars

(***************************************************************************)
(* executeTests of taskpane/taskpane.js: the tests run one after another,  *)
(* each through runTest of scripts/test-runner.js (invocation i runs test  *)
(* i).  ui holds the locals of executeTests - the loop index i, allResults *)
(* and passedCount - and what displayMultipleResults was given.            *)
(***************************************************************************)
NotShown == [results |-> <<>>, passedCount |-> -1, totalCount |-> -1]

ExecStart == [i |-> 1, allResults |-> <<>>, passedCount |-> 0, shown |-> NotShown]

\* the lists executeTests is run on: a test that writes A!1 and reads B!1, a
\* test whose input names a worksheet that does not exist, a test that only
\* reads
ExecSuiteChoices ==
    SeqsUpTo({TestCase(<<Input(A1, Num(3))>>, <<Assertion(B1, Num(4), Undefined)>>),
              TestCase(<<Input(X1, Num(3))>>, <<>>),
              TestCase(<<>>, <<Assertion(B1, Num(3), Undefined)>>)}, MaxRuns)

ExecuteInit ==
    /\ doc \in DocChoices
    /\ testCases \in ExecSuiteChoices
    /\ EngineInit
    /\ snapshot = [r \in Runs |-> NullSnapshot]
    /\ ui = ExecStart
    /\ probe = NoProbe

\* a call that does not wait for the test before it
CalledWithoutAwait(r) == r <= ui.i + 1

\* await window.ExcelTestRunner.runTest(testsToRun[i]): the call for test r
\* is made when the loop is at r
CalledInTurn(r) == r = ui.i

\* the entry the catch of executeTests pushes
ExecErrorResultOf(testCase, i, message) ==
    [testName |-> IF testCase.name = "" THEN "Test" ELSE testCase.name,
     passed |-> FALSE,
     assertionResults |-> <<>>,
     error |-> message]

\* runTest(testsToRun[i]) has settled: push its result, or the error entry
ExecCollect ==
    /\ ui.i <= Len(testCases)
    /\ pc[ui.i] = "done"
    /\ thread = 0
    /\ LET settled == returned[ui.i]
       IN ui' = IF settled.status = "resolved"
                THEN [ui EXCEPT !.i = @ + 1,
                                !.allResults = Append(@, settled.value),
                                !.passedCount = CountPassed(@, settled.value)]
                ELSE [ui EXCEPT !.i = @ + 1,
                                !.allResults = Append(@, ExecErrorResultOf(testCases[ui.i], ui.i,
                                                                           settled.error))]
    /\ UNCHANGED <<engineVars, probe>>

\* displayMultipleResults(allResults, passedCount, testsToRun.length)
ExecDisplay ==
    /\ ui.i > Len(testCases)
    /\ ui.shown = NotShown
    /\ ui' = [ui EXCEPT !.shown = [results |-> ui.allResults, passedCount |-> ui.passedCount,
                                   totalCount |-> Len(testCases)]]
    /\ UNCHANGED <<engineVars, probe>>

ExecRunTest(r) ==
    \/ CalledInTurn(r) /\ RunTestStart(r)
    \/ RunSnapshotSync(r)
    \/ RunTry(r)
    \/ RunApplySync(r)
    \/ RunRecalcSync(r)
    \/ RunSettle(r)
    \/ RunReadSync(r)
    \/ RunFinally(r)
    \/ RunRestoreSync(r)

NextExecute ==
    \/ \E r \in Runs : ExecRunTest(r)
    \/ ExecCollect
    \/ ExecDisplay

SpecExecute == ExecuteInit /\ [][NextExecute]_vars

\* C30: executeTests runs the tests one after another, each in its own
\* region: the runTest call of a test is not made, and so its snapshot not
\* captured, before the call of the test before it has settled with its
\* restore synced; a rejected call is recorded as {passed false, no assertion
\* results, the error's message}, and the tests after it are run all the
\* same, every test having its entry when the results are displayed.
C30_OneAfterAnother ==
    /\ \A r \in Runs :
         (r > 1 /\ (pc[r] # "idle" \/ ~snapshot[r].isNull)) =>
           /\ pc[r - 1] = "done"
           /\ queue[r - 1] = <<>>
           /\ returned[r - 1].status # "pending"
    /\ \A i \in 1..Len(ui.allResults) :
         returned[i].status = "rejected" =>
           ui.allResults[i] = [testName |-> testCases[i].name, passed |-> FALSE,
                               assertionResults |-> <<>>, error |-> returned[i].error]
    /\ ui.shown # NotShown =>
         /\ Len(ui.shown.results) = Len(testCases)
         /\ \A i \in 1..Len(testCases) : pc[i] = "done"

\* the first call was rejected, the second ran in its own region and passed
C30_Witness ==
    /\ ui.shown # NotShown
    /\ Len(testCases) = 2
    /\ returned[1].status = "rejected"
    /\ ~ui.shown.results[1].passed
    /\ ui.shown.results[1].assertionResults = <<>>
    /\ ~snapshot[2].isNull
    /\ returned[2].status = "resolved"
    /\ ui.shown.results[2].passed

(***************************************************************************)
(* The two evaluations on their own: evaluateAssertions as runTest calls   *)
(* it (scripts/test-runner.js) and the assertion loop of                   *)
(* runTestWithoutProtection (part_005), applied to one test case and one   *)
(* outputs object.  Numbers are in hundredths: 10050 stands for 100.5.     *)
(* probe.captured is the outputs object; an assertion cell that is not a   *)
(* key of it reads as undefined.                                           *)
(***************************************************************************)
MaxEvalAssertions == 2

EvalActuals ==
    {Num(3), Num(10000), Num(10050), Num(10051), Null, Bool(TRUE), Str(1), Str(2)}

EvalAssertionChoices ==
    {Assertion(B1, equals, tolerance) :
       equals \in {Num(3), Num(10000), Str(1), Str(2), Bool(TRUE), Null},
       tolerance \in {Undefined, Num(0), Num(50)}}

EvalOutputsChoices == {<<>>} \cup {[a \in {B1} |-> v] : v \in EvalActuals}

EvaluateInit ==
    /\ doc \in {d \in DocChoices : d[A1].formula = EmptyStr /\ d[B1].formula = EmptyStr}
    /\ testCases \in {<<TestCase(<<>>, assertions)>> :
                        assertions \in SeqsUpTo(EvalAssertionChoices, MaxEvalAssertions)}
    /\ EngineInit
    /\ snapshot = [r \in Runs |-> NullSnapshot]
    /\ ui = PaneIdle
    /\ probe \in {[NoProbe EXCEPT !.captured = outputs] : outputs \in EvalOutputsChoices}

EvaluateFrame ==
    UNCHANGED <<doc, console, thread, testCases, queue, ranges, snapshot, idx, passedCount,
                returned, pre, restoreFailed, flushed, faults, ui, probe>>

\* runTest: evaluateAssertions(outputs, testCase.assertions) and the return
EvaluateInRunTest(r) ==
    /\ pc[r] = "idle"
    /\ pc' = [pc EXCEPT ![r] = "evaluated"]
    /\ allResults' = [allResults EXCEPT ![r] =
                        <<RunnerResultOf(testCases[1], probe.captured)>>]
    /\ UNCHANGED threw
    /\ EvaluateFrame

\* runTestSuite: the assertion loop of runTestWithoutProtection, its return,
\* or the catch of the suite loop when the evaluation throws
EvaluateInSuite(r) ==
    /\ pc[r] = "idle"
    /\ pc' = [pc EXCEPT ![r] = "suiteEvaluated"]
    /\ IF \E i \in 1..Len(testCases[1].assertions) :
            AssertionThrows(testCases[1].assertions[i], probe.captured)
       THEN /\ allResults' = [allResults EXCEPT ![r] =
                 <<ErrorResultOf(testCases[1], 1, "expectedValue.toLowerCase is not a function")>>]
            /\ threw' = [threw EXCEPT ![r] = {1}]
       ELSE /\ allResults' = [allResults EXCEPT ![r] =
                 <<TestResultOf(testCases[1], probe.captured)>>]
            /\ UNCHANGED threw
    /\ EvaluateFrame

NextEvaluate == EvaluateInRunTest(1) \/ EvaluateInSuite(1)

SpecEvaluate == EvaluateInit /\ [][NextEvaluate]_vars

(***************************************************************************)
(* Properties of the evaluations (checked under SpecEvaluate).             *)
(***************************************************************************)
\* the actual value the k-th assertion of the test case reads
ActualOf(k) == Lookup(probe.captured, testCases[1].assertions[k].cell)

\* C16: evaluateAssertions, for a numeric actual and a numeric expected,
\* sets difference = |actual - expected| and passed = (difference <=
\* tolerance), a missing tolerance counting as 0.
C16_ToleranceComparison ==
    pc[1] = "evaluated" =>
      \A k \in 1..Len(testCases[1].assertions) :
        LET assertion == testCases[1].assertions[k]
            ar == allResults[1][1].assertionResults[k]
        IN (ActualOf(k).t = "number" /\ assertion.equals.t = "number") =>
             /\ ar.difference = Num(Abs(ActualOf(k).v - assertion.equals.v))
             /\ ar.passed = (Abs(ActualOf(k).v - assertion.equals.v)
                               <= DeclaredTolerance(assertion))

\* 100 against 100 with tolerance 0 and 100.5 against 100 with tolerance 0.5
\* pass, 100.51 against 100 with tolerance 0.5 fails
C16_Witness ==
    /\ pc[1] = "evaluated"
    /\ Len(testCases[1].assertions) = 2
    /\ testCases[1].assertions[1] = Assertion(B1, Num(10000), Num(50))
    /\ testCases[1].assertions[2] = Assertion(B1, Num(10000), Undefined)
    /\ \/ ActualOf(1) = Num(10050) /\ allResults[1][1].assertionResults[1].passed
       \/ ActualOf(1) = Num(10051) /\ ~allResults[1][1].assertionResults[1].passed
       \/ ActualOf(1) = Num(10000) /\ allResults[1][1].assertionResults[2].passed

\* C17: in an assertion result of runTestSuite, an actual value that is null
\* or absent gives passed = false and difference = null, whatever the
\* expected value is (an expected null included).
C17_NullActualFails ==
    pc[1] = "suiteEvaluated" =>
      \A k \in 1..Len(allResults[1][1].assertionResults) :
        ActualOf(k) \in {Null, Undefined} =>
          /\ ~allResults[1][1].assertionResults[k].passed
          /\ allResults[1][1].assertionResults[k].difference = Null

\* C18: in an assertion result of runTestSuite whose actual and expected are
\* not both numbers, passed is the exact typed equality of the actual value
\* and the declared expected value (a string expected never passes against a
\* number or a boolean), and a boolean actual true against a boolean expected
\* true yields a passing assertion result.
C18_TypedEquality ==
    pc[1] = "suiteEvaluated" =>
      /\ \A k \in 1..Len(allResults[1][1].assertionResults) :
           ~(ActualOf(k).t = "number" /\ testCases[1].assertions[k].equals.t = "number") =>
             allResults[1][1].assertionResults[k].passed
               = StrictEq(ActualOf(k), testCases[1].assertions[k].equals)
      /\ \A k \in 1..Len(testCases[1].assertions) :
           (ActualOf(k) = Bool(TRUE) /\ testCases[1].assertions[k].equals = Bool(TRUE)) =>
             /\ k <= Len(allResults[1][1].assertionResults)
             /\ allResults[1][1].assertionResults[k].passed

\* C19: the result of a test that completed without throwing, in runTest and
\* in runTestSuite, has one assertion result per assertion and passed = true
\* exactly when every assertion result has passed = true; a test without
\* assertions passes.
C19_AggregatePassed ==
    (pc[1] \in {"evaluated", "suiteEvaluated"} /\ threw[1] = {}) =>
      /\ Len(allResults[1][1].assertionResults) = Len(testCases[1].assertions)
      /\ allResults[1][1].passed
           = (\A k \in 1..Len(testCases[1].assertions) :
                allResults[1][1].assertionResults[k].passed)
      /\ testCases[1].assertions = <<>> => allResults[1][1].passed

\* runTest: the first assertion passed, the second failed, the test failed
C19_Witness ==
    /\ pc[1] = "evaluated"
    /\ Len(allResults[1][1].assertionResults) = 2
    /\ allResults[1][1].assertionResults[1].passed
    /\ ~allResults[1][1].assertionResults[2].passed
    /\ ~allResults[1][1].passed

(***************************************************************************)
(* The task pane (part_003, lines 1-486): the run button and the           *)
(* Ctrl/Cmd+Enter listener of the document both call handleLoadAndRunTest, *)
(* which calls executeTests, which awaits runTestSuite.  Each invocation r *)
(* has its own Excel.run; all of them work on the one workbook.            *)
(***************************************************************************)
\* the suites the pane's text box holds: one test that writes A!1 and reads B!1
PaneSuiteChoices ==
    {suite \in SuiteChoices :
       /\ Len(suite) = 1
       /\ Len(suite[1].inputs) = 1 /\ suite[1].inputs[1].address = A1
       /\ Len(suite[1].assertions) = 1 /\ suite[1].assertions[1].cell = B1
       /\ suite[1].assertions[1].tolerance = Undefined}

\* the continuation of an await runs before the next event is dispatched
NoContinuationPending == \A q \in Runs : pc[q] # "done"

\* handleLoadAndRunTest up to the first await inside runTestSuite
HandleLoadAndRunTest(r) ==
    /\ NoContinuationPending
    /\ \A q \in Runs : q < r => pc[q] # "idle"
    /\ ui' = [isTestRunning |-> TRUE, buttonDisabled |-> TRUE]
    /\ SuiteStartBody(r)
    /\ UNCHANGED probe

\* a click on the run button: a disabled button dispatches no click
ClickRun(r) == ~ui.buttonDisabled /\ HandleLoadAndRunTest(r)

\* Ctrl/Cmd+Enter anywhere in the document
HotkeyRun(r) ==
    /\ (ui.buttonDisabled \/ ~ui.buttonDisabled)
    /\ HandleLoadAndRunTest(r)

\* a step of an invocation of runTestSuite
SuiteStep(r) ==
    /\ NoContinuationPending
    /\ \/ SnapshotSync(r)
       \/ TestBegin(r)
       \/ ApplySync(r)
       \/ RecalcSync(r)
       \/ Settle(r)
       \/ ReadSync(r)
       \/ SuiteFinish(r)
       \/ RestoreSync(r)

\* runTestSuite has resolved: the finally blocks of executeTests and of
\* handleLoadAndRunTest
ExecuteTestsFinally(r) ==
    /\ pc[r] = "done"
    /\ pc' = [pc EXCEPT ![r] = "shown"]
    /\ ui' = [isTestRunning |-> FALSE, buttonDisabled |-> FALSE]
    /\ UNCHANGED <<doc, console, thread, testCases, queue, ranges, snapshot, idx,
                   allResults, passedCount, returned, pre, threw, restoreFailed,
                   flushed, faults, probe>>

PaneInit ==
    /\ doc \in DocChoices
    /\ testCases \in PaneSuiteChoices
    /\ EngineInit
    /\ snapshot = [r \in Runs |-> NullSnapshot]
    /\ ui = PaneIdle
    /\ probe = NoProbe

NextPane ==
    \E r \in Runs :
      \/ ClickRun(r)
      \/ HotkeyRun(r)
      \/ SuiteStep(r)
      \/ ExecuteTestsFinally(r)

SpecPane == PaneInit /\ [][NextPane]_vars

(***************************************************************************)
(* The set-up of the task pane (part_003, lines 1-140): the script runs    *)
(* top to bottom once, Office.onReady and DOMContentLoaded call            *)
(* initializeUI, and the listeners it registers call handleLoadAndRunTest. *)
(* ui holds the page: document.readyState, the let binding handlersSetup   *)
(* ("tdz" until line 63 has run), the listeners registered so far, and the *)
(* number of handleLoadAndRunTest calls the last event made.  A listener   *)
(* that throws does not keep the other listeners of the event from         *)
(* running, and preventDefault() does not stop the event from bubbling.    *)
(***************************************************************************)
PageChoices ==
    {[readyState |-> rs, host |-> h, script |-> "notRun", handlersSetup |-> "tdz",
      onReadyRan |-> FALSE, domListeners |-> 0, clickListeners |-> 0,
      boxKeyListeners |-> 0, documentKeyListeners |-> 0, initializeUIRuns |-> 0,
      currentInputMethod |-> "file", lastEvent |-> "none", lastCalls |-> 0] :
       rs \in {"loading", "interactive"}, h \in {"Excel", "Word"}}

\* setupEventHandlers(): a ReferenceError while handlersSetup is not
\* initialized, a return when it is true, the listeners otherwise
SetupThrows(page) == page.handlersSetup = "tdz"

setupEventHandlers(page) ==
    IF page.handlersSetup = "true" THEN page
    ELSE [page EXCEPT !.clickListeners = @ + 1,
                      !.boxKeyListeners = @ + 1,
                      !.handlersSetup = "true"]

\* setupHotkey(): one more keydown listener on the document
setupHotkey(page) ==
    [page EXCEPT !.documentKeyListeners = @ + 1]

\* initializeUI(): a throw of setupEventHandlers ends it before setupHotkey
initializeUI(page) ==
    IF SetupThrows(page) THEN [page EXCEPT !.initializeUIRuns = @ + 1]
    ELSE [setupHotkey(setupEventHandlers(page)) EXCEPT !.initializeUIRuns = @ + 1]

RECURSIVE RunListeners(_, _)
\* the n DOMContentLoaded listeners, one after the other
RunListeners(page, n) ==
    IF n = 0 THEN page ELSE RunListeners(initializeUI(page), n - 1)

PaneSetupFrame ==
    UNCHANGED <<doc, console, thread, testCases, pc, queue, ranges, snapshot, idx, allResults,
                passedCount, returned, pre, threw, restoreFailed, flushed, faults, probe>>

\* the script runs: Office.onReady(...) registers its callback (line 10),
\* then lines 56-60 either wait for DOMContentLoaded or call initializeUI at
\* once, which throws before line 63 has initialized handlersSetup and ends
\* the script there
RunScript ==
    /\ ui.script = "notRun"
    /\ ui' = IF ui.readyState = "loading"
             THEN [ui EXCEPT !.script = "ran", !.domListeners = @ + 1,
                             !.handlersSetup = "false"]
             ELSE [initializeUI(ui) EXCEPT !.script = "threw"]
    /\ PaneSetupFrame

\* the document has been parsed: readyState changes, DOMContentLoaded fires
DOMContentLoaded ==
    /\ ui.script # "notRun"
    /\ ui.readyState = "loading"
    /\ ui' = [RunListeners(ui, ui.domListeners) EXCEPT !.readyState = "interactive",
                                                      !.domListeners = 0]
    /\ PaneSetupFrame

\* the callback of Office.onReady (lines 10-22)
OfficeOnReady ==
    /\ ui.script # "notRun"
    /\ ~ui.onReadyRan
    /\ ui' = [(IF ui.host # "Excel" THEN ui
               ELSE IF ui.readyState = "loading" THEN [ui EXCEPT !.domListeners = @ + 1]
               ELSE initializeUI(ui))
              EXCEPT !.onReadyRan = TRUE]
    /\ PaneSetupFrame

\* a click on one of the two tabs
SwitchInputMethod ==
    /\ ui.handlersSetup = "true"
    /\ \E method \in {"paste", "file"} :
         /\ method # ui.currentInputMethod
         /\ ui' = [ui EXCEPT !.currentInputMethod = method]
    /\ PaneSetupFrame

\* one click on the run button
ClickRunButton ==
    /\ ui.script # "notRun"
    /\ ui' = [ui EXCEPT !.lastEvent = "click", !.lastCalls = ui.clickListeners]
    /\ PaneSetupFrame

\* one Ctrl/Cmd+Enter with the focus in the text box: the listener of the
\* text box calls handleLoadAndRunTest in paste mode, then the event bubbles
\* to the document
KeyInTextBox ==
    /\ ui.script # "notRun"
    /\ ui' = [ui EXCEPT !.lastEvent = "keyInTextBox",
                        !.lastCalls = (IF ui.currentInputMethod = "paste"
                                       THEN ui.boxKeyListeners ELSE 0)
                                      + ui.documentKeyListeners]
    /\ PaneSetupFrame

\* one Ctrl/Cmd+Enter with the focus elsewhere in the pane
KeyInDocument ==
    /\ ui.script # "notRun"
    /\ ui' = [ui EXCEPT !.lastEvent = "keyInDocument",
                        !.lastCalls = ui.documentKeyListeners]
    /\ PaneSetupFrame

PaneSetupInit ==
    /\ doc \in DocChoices
    /\ testCases \in PaneSuiteChoices
    /\ EngineInit
    /\ snapshot = [r \in Runs |-> NullSnapshot]
    /\ ui \in PageChoices
    /\ probe = NoProbe

NextPaneSetup ==
    \/ RunScript
    \/ DOMContentLoaded
    \/ OfficeOnReady
    \/ SwitchInputMethod
    \/ ClickRunButton
    \/ KeyInTextBox
    \/ KeyInDocument

SpecPaneSetup == PaneSetupInit /\ [][NextPaneSetup]_vars

\* C33: however many times initializeUI has run, one click on the run button
\* or one Ctrl/Cmd+Enter makes at most one call of handleLoadAndRunTest.
C33_OneCallPerEvent ==
    ui.lastEvent # "none" => ui.lastCalls <= 1

(***************************************************************************)
(* Properties of the task pane (checked under SpecPane).                   *)
(***************************************************************************)
\* invocation r is between the start of its capture and the end of its restore
InRegion(r) == pc[r] \notin {"idle", "done", "shown"}

\* C7: no two protected regions are ever active on the workbook at once:
\* whatever the clicks and key presses, no invocation of runTestSuite is
\* inside its region while another one is.
C7_NoConcurrentRegions ==
    \A r, q \in Runs : r # q => ~(InRegion(r) /\ InRegion(q))

\* the runTestSuite call of invocation r was made by executeTests and the
\* finally blocks after it have not run yet
Unsettled(r) == pc[r] \notin {"idle", "shown"}

\* C34: isTestRunning is true exactly while a runTestSuite call started by
\* executeTests has not settled, the run button is disabled all that time,
\* and once every run has settled, resolved or rejected, isTestRunning is
\* false and the button is enabled.
C34_RunningFlag ==
    /\ ui.isTestRunning <=> \E r \in Runs : Unsettled(r)
    /\ (\E r \in Runs : Unsettled(r)) => ui.buttonDisabled
    /\ (\A r \in Runs : ~Unsettled(r)) => ~ui.buttonDisabled

(***************************************************************************)
(* restoreState on its own: a snapshot captured from one workbook state is *)
(* restored twice, with no other write in between, onto a workbook in      *)
(* another state.  probe holds what the host refuses (the same in both     *)
(* calls), the workbook the snapshot was captured from, and the workbook   *)
(* after the first call.                                                   *)
(***************************************************************************)
RestoreDocChoices ==
    {Recalculate([a \in DocCells |->
                    CASE a = A1 -> ca
                      [] a = A2 -> [value |-> Num(va), formula |-> EmptyStr]
                      [] OTHER -> cb]) :
       ca \in {[value |-> Num(1), formula |-> EmptyStr], [value |-> Num(2), formula |-> FConst]},
       va \in {3, 5},
       cb \in {[value |-> Num(0), formula |-> FRef], [value |-> Bool(TRUE), formula |-> EmptyStr]}}

\* the address lists a snapshot is captured for: distinct cells, any order
AddressLists ==
    {s \in SeqsUpTo(DocCells, Cardinality(DocCells)) :
       \A i, j \in 1..Len(s) : i # j => s[i] # s[j]}

RestoreInit ==
    /\ doc \in RestoreDocChoices
    /\ testCases = <<>>
    /\ EngineInit
    /\ ui = PaneIdle
    /\ \E captured \in RestoreDocChoices, addresses \in AddressLists :
         /\ snapshot = [r \in Runs |->
              IF r = 1
              THEN [isNull |-> FALSE,
                    entries |-> SnapshotOf(captured, snapshotWorksheetState(addresses).ranges)]
              ELSE NullSnapshot]
         /\ \E h \in {[failSheets |-> fs, failCells |-> fc] :
                        fs \in SUBSET {parseCellAddress(addresses[i]).worksheetName :
                                         i \in 1..Len(addresses)},
                        fc \in SUBSET {addresses[i] : i \in 1..Len(addresses)}} :
              probe = [failSheets |-> h.failSheets, failCells |-> h.failCells,
                       captured |-> captured, first |-> doc]

\* restoreState, from the call to its await context.sync()
RestoreCall(r) ==
    /\ pc[r] \in {"idle", "restored"}
    /\ LET rs == restoreState(snapshot[r].entries, probe.failSheets, probe.failCells)
       IN /\ queue' = [queue EXCEPT ![r] = @ \o rs.cmds]
          /\ console' = console \cup rs.errors
          /\ restoreFailed' = [restoreFailed EXCEPT ![r] =
               Offending(snapshot[r].entries, probe.failSheets, probe.failCells)]
    /\ pc' = [pc EXCEPT ![r] = IF pc[r] = "idle" THEN "restoreSync" ELSE "restoreSync2"]
    /\ UNCHANGED <<doc, thread, testCases, ranges, snapshot, idx, allResults, passedCount,
                   returned, pre, threw, flushed, faults, ui, probe>>

\* the sync of restoreState resolves
RestoreReturn(r) ==
    /\ pc[r] \in {"restoreSync", "restoreSync2"}
    /\ SyncResolves(r)
    /\ queue' = [queue EXCEPT ![r] = <<>>]
    /\ pc' = [pc EXCEPT ![r] = IF pc[r] = "restoreSync" THEN "restored" ELSE "restoredTwice"]
    /\ probe' = IF pc[r] = "restoreSync" THEN [probe EXCEPT !.first = doc'] ELSE probe
    /\ UNCHANGED <<console, thread, testCases, ranges, snapshot, idx, allResults,
                   passedCount, returned, pre, threw, restoreFailed, ui>>

NextRestore == RestoreCall(1) \/ RestoreReturn(1)

SpecRestore == RestoreInit /\ [][NextRestore]_vars

\* restoreState of scripts/test-runner.js, from the call to its await
\* context.sync(), on the same snapshots and host refusals
RestoreCallOfRunner(r) ==
    /\ pc[r] \in {"idle", "restored"}
    /\ LET rs == restoreStateOfRunner(snapshot[r].entries, probe.failSheets, probe.failCells)
       IN /\ queue' = [queue EXCEPT ![r] = @ \o rs.cmds]
          /\ console' = console \cup rs.errors
          /\ restoreFailed' = [restoreFailed EXCEPT ![r] =
               RunnerOffending(snapshot[r].entries, probe.failSheets, probe.failCells)]
    /\ pc' = [pc EXCEPT ![r] = IF pc[r] = "idle" THEN "restoreSync" ELSE "restoreSync2"]
    /\ UNCHANGED <<doc, thread, testCases, ranges, snapshot, idx, allResults, passedCount,
                   returned, pre, threw, flushed, faults, ui, probe>>

NextRestoreOfRunner == RestoreCallOfRunner(1) \/ RestoreReturn(1)

SpecRestoreOfRunner == RestoreInit /\ [][NextRestoreOfRunner]_vars

(***************************************************************************)
(* Properties of restoreState (checked under SpecRestore).                 *)
(***************************************************************************)
\* the restore commands queued for one address
RestoreCmdsFor(r, a) ==
    {queue[r][k] : k \in {j \in 1..Len(queue[r]) :
                            queue[r][j].by = "restoreState" /\ queue[r][j].cell = a}}

\* C8: for every snapshot entry the host lets it reach, restoreState queues
\* exactly one write: the captured formula when the cell had a formula at
\* capture time, the captured value otherwise; it queues nothing else.
C8_RestoreFormulaOrValue ==
    pc[1] = "restoreSync" =>
      /\ \A a \in SnapshotKeys(1) :
           RestoreCmdsFor(1, a) =
             IF a \in restoreFailed[1] THEN {}
             ELSE IF probe.captured[a].formula # EmptyStr
                  THEN {FormulasCmd(a, probe.captured[a].formula, "restoreState")}
                  ELSE {ValuesCmd(a, probe.captured[a].value, "restoreState")}
      /\ \A k \in 1..Len(queue[1]) : queue[1][k].cell \in SnapshotKeys(1)

\* a restore that queued a formula write and a value write
C8_Witness ==
    /\ pc[1] = "restoreSync"
    /\ \E k \in 1..Len(queue[1]) : queue[1][k].op = "formulas"
    /\ \E k \in 1..Len(queue[1]) : queue[1][k].op = "values"

\* the workbook holds what the snapshot entry captured
EntryRestored(e) ==
    IF e.formula = Null
    THEN doc[e.address] = [value |-> e.value, formula |-> EmptyStr]
    ELSE doc[e.address].formula = e.formula

\* the console names the failure: the cell's address within its sheet, or
\* the worksheet that could not be opened
EntryReported(e) ==
    \/ Log("Failed to restore cell", parseCellAddress(e.address).cellAddress) \in console
    \/ Log("Failed to restore worksheet", SheetOf(e)) \in console

EntryNotRefused(e) ==
    /\ e.address \notin probe.failCells
    /\ ~SheetFails(SheetOf(e), probe.failSheets)

\* C31: restoreState of scripts/test-runner.js goes on after a failure: when
\* the restore of one cell fails, every other cell of the snapshot, of the
\* same worksheet or of another, is restored all the same.
C31_RunnerRestoreGoesOn ==
    pc[1] = "restored" =>
      \A i \in 1..Len(snapshot[1].entries) :
        EntryNotRefused(snapshot[1].entries[i]) => EntryRestored(snapshot[1].entries[i])

\* C28: in every assertion result of runTestSuite, difference is non-null
\* exactly when actual and expected are both numbers, it is then
\* |actual - expected|, never negative, and tolerance is always a number,
\* the declared one or 0 when the assertion declares none.
C28_DifferenceAndTolerance ==
    (pc[1] = "suiteEvaluated" /\ threw[1] = {}) =>
      \A k \in 1..Len(testCases[1].assertions) :
        LET assertion == testCases[1].assertions[k]
            ar == allResults[1][1].assertionResults[k]
            numeric == TypeOf(ar.actual) = "number" /\ TypeOf(ar.expected) = "number"
        IN /\ ar.difference # Null <=> numeric
           /\ (ar.actual.t = "number" /\ ar.expected.t = "number") =>
                ar.difference = Num(Abs(ar.actual.v - ar.expected.v))
           /\ ar.tolerance = Num(DeclaredTolerance(assertion))

(***************************************************************************)
(* The adapter functions of part_005 called on their own: each of          *)
(* snapshotWorksheetState, applyInputs, readOutputs and restoreState is    *)
(* called once on a list of distinct addresses, which may hold a malformed *)
(* address or one on a worksheet that does not exist; parseCellAddress is  *)
(* applied to one address.  testCases holds the argument: the addresses    *)
(* are the keys of inputs and the cells of assertions.                     *)
(***************************************************************************)
MaxAddresses == 3

NoSheet == <<"!", "1">>
NoCell == <<"A", "!">>
TwoBangs == <<"A", "!", "1", "!", "2">>
ParseAddresses == {A1, B1, X1, Bad, NoSheet, NoCell, TwoBangs, <<>>}

AdapterAddresses == {A1, A2, B1, X1, Bad}

AdapterLists ==
    {s \in SeqsUpTo(AdapterAddresses, MaxAddresses) :
       \A i, j \in 1..Len(s) : i # j => s[i] # s[j]}

AdapterInit ==
    /\ doc \in DocChoices
    /\ testCases \in {<<TestCase([i \in 1..Len(list) |-> Input(list[i], Num(3))],
                                 [i \in 1..Len(list) |-> Assertion(list[i], Num(3), Undefined)])>> :
                        list \in AdapterLists}
    /\ EngineInit
    /\ snapshot = [r \in Runs |-> NullSnapshot]
    /\ ui = PaneIdle
    /\ probe = NoProbe

\* the addresses argument of the call
AdapterArgument == [i \in 1..Len(testCases[1].assertions) |-> testCases[1].assertions[i].cell]

\* the snapshot object handed to restoreState: one entry per address
AdapterSnapshot ==
    [i \in 1..Len(AdapterArgument) |->
       [address |-> AdapterArgument[i], value |-> Num(3), formula |-> Null]]

AdapterFrame ==
    UNCHANGED <<doc, thread, testCases, snapshot, idx, allResults, passedCount, pre, threw,
                flushed, faults, ui, probe>>

\* the synchronous part of an adapter call: up to its throw or its await
AdapterIssue(r, res, name) ==
    /\ pc[r] = "idle"
    /\ queue' = [queue EXCEPT ![r] = res.cmds]
    /\ ranges' = [ranges EXCEPT ![r] = res.ranges]
    /\ IF res.threw
       THEN /\ pc' = [pc EXCEPT ![r] = "threw"]
            /\ returned' = [returned EXCEPT ![r] =
                 [status |-> "rejected", by |-> name, error |-> res.error, sheet |-> res.sheet]]
       ELSE /\ pc' = [pc EXCEPT ![r] = "sync"]
            /\ returned' = [returned EXCEPT ![r] =
                 [status |-> "pending", by |-> name, error |-> NoError, sheet |-> <<>>]]
    /\ AdapterFrame

CallSnapshot(r) ==
    /\ AdapterIssue(r, snapshotWorksheetState(AdapterArgument), "snapshotWorksheetState")
    /\ UNCHANGED <<console, restoreFailed>>

CallApplyInputs(r) ==
    /\ AdapterIssue(r, [applyInputs(testCases[1].inputs) EXCEPT !.ranges = <<>>]
                         @@ [sheet |-> IF AnyParseThrows(testCases[1].inputs) THEN <<>>
                                         ELSE FailedSheet(testCases[1].inputs)],
                    "applyInputs")
    /\ UNCHANGED <<console, restoreFailed>>

CallReadOutputs(r) ==
    /\ AdapterIssue(r, readOutputs(AdapterArgument) @@ [sheet |-> <<>>], "readOutputs")
    /\ UNCHANGED <<console, restoreFailed>>

\* restoreState parses every key of the snapshot before it opens a worksheet
CallRestoreState(r) ==
    /\ IF AnyParseThrows(AdapterSnapshot)
       THEN /\ AdapterIssue(r, [threw |-> TRUE, error |-> "Invalid cell address format",
                                sheet |-> <<>>, cmds |-> <<>>, ranges |-> <<>>],
                            "restoreState")
            /\ UNCHANGED <<console, restoreFailed>>
       ELSE LET rs == restoreState(AdapterSnapshot, {}, {})
            IN /\ AdapterIssue(r, [threw |-> FALSE, error |-> NoError, sheet |-> <<>>,
                                   cmds |-> rs.cmds, ranges |-> <<>>],
                               "restoreState")
               /\ console' = console \cup rs.errors
               /\ restoreFailed' = [restoreFailed EXCEPT ![r] = Offending(AdapterSnapshot, {}, {})]

\* the await context.sync() of the call settles
AdapterSync(r) ==
    /\ pc[r] = "sync"
    /\ \/ /\ SyncResolves(r)
          /\ pc' = [pc EXCEPT ![r] = "returned"]
          /\ returned' = [returned EXCEPT ![r].status = "resolved"]
          /\ snapshot' = [snapshot EXCEPT ![r] =
               IF returned[r].by = "snapshotWorksheetState"
               THEN [isNull |-> FALSE, entries |-> SnapshotOf(doc', ranges[r])]
               ELSE @]
          /\ probe' = IF returned[r].by = "readOutputs"
                      THEN [probe EXCEPT !.captured = OutputsOf(doc', ranges[r])]
                      ELSE probe
       \/ /\ SyncRejects(r)
          /\ pc' = [pc EXCEPT ![r] = "threw"]
          /\ returned' = [returned EXCEPT ![r].status = "rejected", ![r].error = "sync rejected"]
          /\ UNCHANGED <<snapshot, probe>>
    /\ queue' = [queue EXCEPT ![r] = <<>>]
    /\ UNCHANGED <<console, thread, testCases, ranges, idx, allResults, passedCount, pre,
                   threw, restoreFailed, ui>>

\* parseCellAddress(fullAddress) on its own
CallParse(r) ==
    /\ pc[r] = "idle"
    /\ \E fullAddress \in ParseAddresses :
         returned' = [returned EXCEPT ![r] =
            IF ParseThrows(fullAddress)
            THEN [status |-> "rejected", by |-> "parseCellAddress", input |-> fullAddress,
                  error |-> "Invalid cell address format"]
            ELSE [status |-> "resolved", by |-> "parseCellAddress", input |-> fullAddress,
                  value |-> parseCellAddress(fullAddress)]]
    /\ pc' = [pc EXCEPT ![r] = "parsed"]
    /\ UNCHANGED <<queue, ranges, console, restoreFailed>>
    /\ AdapterFrame

NextAdapter ==
    \/ CallSnapshot(1)
    \/ CallApplyInputs(1)
    \/ CallReadOutputs(1)
    \/ CallRestoreState(1)
    \/ AdapterSync(1)
    \/ CallParse(1)

SpecAdapter == AdapterInit /\ [][NextAdapter]_vars

(***************************************************************************)
(* Properties of the adapter functions (checked under SpecAdapter).        *)
(***************************************************************************)
\* the addresses of the argument that come before its first malformed one
BeforeMalformed ==
    {AdapterArgument[i] : i \in {j \in 1..Len(AdapterArgument) :
                                   \A k \in 1..j : ~ParseThrows(AdapterArgument[k])}}

\* C21 as stated: a malformed address among the addresses of
\* snapshotWorksheetState, applyInputs, readOutputs or restoreState makes the
\* call fail before it has issued any host operation - no range handle, no
\* load, no write, no sync - wherever the address sits in the input.
C21_MalformedBeforeHost ==
    (pc[1] \notin {"idle", "parsed"} /\ \E i \in 1..Len(AdapterArgument) : ParseThrows(AdapterArgument[i])) =>
      /\ pc[1] = "threw"
      /\ returned[1].status = "rejected"
      /\ queue[1] = <<>>
      /\ ranges[1] = <<>>
      /\ flushed[1] = {}

\* C21: a malformed address among the addresses of an adapter call makes the
\* call fail before any sync, wherever it sits: nothing is written and the
\* workbook is untouched.  snapshotWorksheetState, applyInputs and
\* restoreState have then issued no host operation at all; readOutputs has
\* requested and loaded only the ranges of the well-formed addresses that
\* come before the malformed one, and those loads are never flushed by it.
C21_MalformedBeforeSync ==
    (pc[1] \notin {"idle", "parsed"} /\ \E i \in 1..Len(AdapterArgument) : ParseThrows(AdapterArgument[i])) =>
      /\ pc[1] = "threw"
      /\ returned[1].status = "rejected"
      /\ faults[1] = 0
      /\ flushed[1] = {}
      /\ doc = pre[1]
      /\ IF returned[1].by = "readOutputs"
         THEN /\ \A k \in 1..Len(queue[1]) :
                   queue[1][k].op = "load" /\ queue[1][k].cell \in BeforeMalformed
              /\ Len(ranges[1]) = Len(queue[1])
         ELSE queue[1] = <<>> /\ ranges[1] = <<>>

\* readOutputs threw on the second address after loading the first
C21_Witness ==
    /\ pc[1] = "threw"
    /\ returned[1].by = "readOutputs"
    /\ AdapterArgument = <<A1, Bad>>
    /\ Len(queue[1]) = 1

\* the number of '!' in an address
Separators(fullAddress) == Cardinality({i \in 1..Len(fullAddress) : fullAddress[i] = "!"})

\* C25: parseCellAddress accepts an address exactly when it holds one '!'
\* with a non-empty sheet name before it and a non-empty local address after
\* it; an accepted address comes back as those two parts, unchanged, and
\* every other address throws.
C25_ParseAccepts ==
    pc[1] = "parsed" =>
      LET a == returned[1].input
          at == CHOOSE i \in 1..(Len(a) + 1) :
                  /\ i = Len(a) + 1 \/ a[i] = "!"
                  /\ \A j \in 1..(i - 1) : a[j] # "!"
          wellFormed == Separators(a) = 1 /\ at > 1 /\ at < Len(a)
      IN /\ returned[1].status = "resolved" <=> wellFormed
         /\ returned[1].status = "resolved" =>
              /\ returned[1].value.worksheetName = SubSeq(a, 1, at - 1)
              /\ returned[1].value.cellAddress = SubSeq(a, at + 1, Len(a))
         /\ returned[1].status # "resolved" =>
              returned[1].status = "rejected" /\ returned[1].error = "Invalid cell address format"

\* the address is well formed and its worksheet is not in the workbook
NamesMissingSheet(fullAddress) ==
    /\ ~ParseThrows(fullAddress)
    /\ parseCellAddress(fullAddress).worksheetName \notin Sheets

\* snapshotWorksheetState(cellAddresses) was called and has got as far as it gets
SnapshotCalled ==
    /\ returned[1].status # "pending" \/ pc[1] = "sync"
    /\ pc[1] \in {"threw", "sync", "returned"}
    /\ returned[1].by = "snapshotWorksheetState"

\* the call failed with the error of the worksheet access, which names a
\* requested worksheet that the workbook does not have
FailedOnMissingSheet ==
    /\ pc[1] = "threw"
    /\ returned[1].status = "rejected"
    /\ snapshot[1].isNull
    /\ returned[1].error = "Failed to access worksheet"
    /\ returned[1].sheet \notin Sheets
    /\ \E i \in 1..Len(AdapterArgument) :
         /\ NamesMissingSheet(AdapterArgument[i])
         /\ parseCellAddress(AdapterArgument[i]).worksheetName = returned[1].sheet

\* C26 as stated: when any requested address names a worksheet that does not
\* exist, snapshotWorksheetState fails as a whole, returns no snapshot and
\* its error names the missing worksheet.
C26_MissingSheetFails ==
    (/\ SnapshotCalled
     /\ \E i \in 1..Len(AdapterArgument) : NamesMissingSheet(AdapterArgument[i]))
    => FailedOnMissingSheet

\* C26 amended: the same when every requested address is well formed; with a
\* malformed address in the list the call also fails as a whole and returns
\* no snapshot, but with the error of parseCellAddress.
C26_MissingSheetAmongWellFormed ==
    (/\ SnapshotCalled
     /\ \E i \in 1..Len(AdapterArgument) : NamesMissingSheet(AdapterArgument[i]))
    => /\ pc[1] = "threw"
       /\ returned[1].status = "rejected"
       /\ snapshot[1].isNull
       /\ (\A i \in 1..Len(AdapterArgument) : ~ParseThrows(AdapterArgument[i]))
            => FailedOnMissingSheet

\* the call failed on X!1, which came after an address of a worksheet that exists
C26_Witness ==
    /\ SnapshotCalled
    /\ FailedOnMissingSheet
    /\ Len(AdapterArgument) >= 2
    /\ AdapterArgument[1] \in DocCells
    /\ returned[1].sheet = <<"X">>

\* C27: a snapshotWorksheetState call that returns gives, for every requested
\* address, one entry under that address whose value is the value the
\* workbook holds at that cell and whose formula is the cell's formula, null
\* when the cell has none, however the addresses are spread over worksheets
\* and in whatever order they were given.
C27_SnapshotPerAddress ==
    (/\ pc[1] = "returned"
     /\ returned[1].by = "snapshotWorksheetState")
    => /\ ~snapshot[1].isNull
       /\ \A i \in 1..Len(AdapterArgument) :
            LET a == AdapterArgument[i]
                at == {k \in 1..Len(snapshot[1].entries) : snapshot[1].entries[k].address = a}
            IN /\ Cardinality(at) = 1
               /\ \A k \in at :
                    /\ snapshot[1].entries[k].value = doc[a].value
                    /\ snapshot[1].entries[k].formula =
                         (IF doc[a].formula = EmptyStr THEN Null ELSE doc[a].formula)
       /\ \A k \in 1..Len(snapshot[1].entries) :
            \E i \in 1..Len(AdapterArgument) : AdapterArgument[i] = snapshot[1].entries[k].address

\* A!1, B!1, A!2 in this order: the batch regroups them by worksheet, and
\* the three cells differ (B!1 holds a formula, the others constants)
C27_Witness ==
    /\ pc[1] = "returned"
    /\ returned[1].by = "snapshotWorksheetState"
    /\ AdapterArgument = <<A1, B1, A2>>
    /\ doc[B1].formula = FRef
    /\ [k \in 1..3 |-> snapshot[1].entries[k].address] = <<A1, A2, B1>>
    /\ snapshot[1].entries[3].formula = FRef
    /\ snapshot[1].entries[1].formula = Null

====
